---- MODULE Spec2Model ----
(***************************************************************************)
(* The office occupancy pipeline: its stages and its orchestrator.         *)
(*                                                                         *)
(* The model follows the stage functions statement by statement:           *)
(* src/convert_xlsx_to_csv.py, src/combine_csv_files.py,                   *)
(* src/clean_occupancy_data.py,                                            *)
(* src/clean_deskcount_data.py (the capacity cleaner),                     *)
(* src/create_dim_date.py,                                                 *)
(* src/create_dim_location.py, src/create_dim_line_of_business.py,         *)
(* src/create_fact_occupancy.py (the per line-of-business fact, variant    *)
(* "lob") and src/create_fact_occupancy_aggregated.py (the aggregated      *)
(* fact, variant "agg"); then src/run_pipeline.py and src/main.py, which   *)
(* select the stages and run them.  A data frame is a sequence of          *)
(* records, so that row order, stable sorting and the sorted-key           *)
(* precondition of pandas.merge_asof are part of the model.                *)
(*                                                                         *)
(* Dates are day numbers counted from 2024-01-01, the first date of the    *)
(* Date dimension (a Monday).  Office locations and lines of business are  *)
(* numbered in the alphabetical order of their names, which is the order   *)
(* the dimension builders give them, so comparing numbers is comparing     *)
(* names.  A missing value (NaN, NA, NaT) is the empty tuple, a present    *)
(* value v is <<v>>.                                                        *)
(***************************************************************************)
EXTENDS Integers, Sequences, FiniteSets, TLC

(***************************************************************************)
(* Bounds of the model.                                                    *)
(***************************************************************************)
\* last day number of the Date dimension that the model keeps (2024-03-03)
MaxDay == 62
\* largest number of cleaned attendance events of one (date, location)
MaxAtt == 2
\* largest raw desk count of a snapshot
MaxDesk == 2
\* largest number of raw capacity snapshots of a capacity scenario; the
\* cleaner taken alone runs on up to MaxSnap + 2 snapshots
MaxSnap == 2

(***************************************************************************)
(* Missing values.                                                         *)
(***************************************************************************)
NA == <<>>
\* the office_location of an event whose raw OfficeLocation is empty: the
\* cleaner lets a missing value through, and it is NaN in Occupancy_cleaned.csv
NoLocation == 0
Some(v) == <<v>>
isna(x) == x = NA
notna(x) == x # NA
Val(x) == x[1]

(***************************************************************************)
(* The calendar: pandas .dt.dayofweek, .dt.month, .dt.year,                *)
(* .dt.to_period('W-SUN').dt.start_time, offsets.MonthEnd(0) and           *)
(* strftime('%Y%m%d') on day numbers counted from 2024-01-01.              *)
(***************************************************************************)
MonthLengths == <<31, 29, 31, 30, 31, 30, 31, 31, 30, 31, 30, 31>>

RECURSIVE MonthFrom(_, _)
MonthFrom(d, m) ==
    IF d < MonthLengths[m] THEN m ELSE MonthFrom(d - MonthLengths[m], m + 1)

RECURSIVE DayFrom(_, _)
DayFrom(d, m) ==
    IF d < MonthLengths[m] THEN d + 1 ELSE DayFrom(d - MonthLengths[m], m + 1)

\* .dt.month: 1..12
month_of(d) == MonthFrom(d, 1)
\* .dt.day: 1..31
day_of(d) == DayFrom(d, 1)
\* .dt.year
year_of(d) == 2024
\* .dt.dayofweek: 0 = Monday .. 6 = Sunday (2024-01-01 is a Monday)
dayofweek(d) == d % 7
\* .dt.to_period('W-SUN').dt.start_time: the Monday of the date's ISO week
week_start(d) == d - (d % 7)
\* d + pd.offsets.MonthEnd(0): the last day of the date's month
MonthEnd0(d) == d - day_of(d) + MonthLengths[month_of(d)]
\* strftime('%Y%m%d').astype(int)
date_key_of(d) == year_of(d) * 10000 + month_of(d) * 100 + day_of(d)

(***************************************************************************)
(* Sequences as data frames.                                               *)
(***************************************************************************)
Range(s) == {s[i] : i \in 1..Len(s)}

\* the rows f[1], f[2], ... as a tuple: a data frame holds computed rows
frame(f) == f \o <<>>

SetMin(S) == CHOOSE x \in S : \A y \in S : x <= y
SetMax(S) == CHOOSE x \in S : \A y \in S : y <= x

RECURSIVE SumOver(_, _)
\* sum of f[x] over x \in S
SumOver(f, S) ==
    IF S = {} THEN 0
    ELSE LET x == CHOOSE y \in S : TRUE IN f[x] + SumOver(f, S \ {x})

\* the order of two rows on a list of sort columns: a and b are the tuples of
\* the rows' values in those columns
LexLess(a, b) ==
    \E k \in 1..Len(a) : a[k] < b[k] /\ \A m \in 1..(k - 1) : a[m] = b[m]

\* DataFrame.sort_values on several columns, and kind='mergesort': a stable
\* sort.  keys[i] is the tuple of the sort columns of row i (a descending
\* column negated); rows with equal keys keep their order.
\* Two runs of row numbers, each in sorted order, merged: of two rows with
\* equal keys the one of the left run comes first.
RECURSIVE merge_runs(_, _, _)
merge_runs(a, b, keys) ==
    IF a = <<>> THEN b
    ELSE IF b = <<>> THEN a
    ELSE IF LexLess(keys[b[1]], keys[a[1]])
         THEN <<b[1]>> \o merge_runs(a, Tail(b), keys)
         ELSE <<a[1]>> \o merge_runs(Tail(a), b, keys)

\* the row numbers lo..hi in sorted order
RECURSIVE argsort(_, _, _)
argsort(lo, hi, keys) ==
    IF lo > hi THEN <<>>
    ELSE IF lo = hi THEN <<lo>>
    ELSE LET mid == (lo + hi) \div 2
         IN merge_runs(argsort(lo, mid, keys), argsort(mid + 1, hi, keys), keys)

StableSort(s, keys) ==
    LET at == argsort(1, Len(s), keys)
    IN frame([k \in 1..Len(s) |-> s[at[k]]])

\* Index(values).is_monotonic_increasing on the date column
is_monotonic_increasing(s) ==
    \A i \in 1..(Len(s) - 1) : s[i].date <= s[i + 1].date

(***************************************************************************)
(* Text cells.  An office location name l is the number l.  The name       *)
(* followed by a blank ('Austin ') is l + Padded, the name followed by a   *)
(* blank and a full stop ('Austin .') is l + 2 * Padded.                   *)
(***************************************************************************)
Padded == 10

\* _normalize_location: strip, collapse whitespace, rstrip('.,;:'), in this
\* order, so that the blank before a removed full stop stays; a missing
\* value is returned as it is
normalize_location(val) ==
    IF val = NoLocation THEN val
    ELSE IF val \div Padded = 2 THEN val - Padded
    ELSE val % Padded

\* the place of a location text in the order of strings: a name before its
\* longer spellings, and these before the next name
name_order(val) == (val % Padded) * 3 + (val \div Padded)

(***************************************************************************)
(* Tables.  A table read from a workbook or from a CSV file is             *)
(* [columns, rows]: the names of its columns and its rows; the cell of a   *)
(* column that the table does not have is NA.                              *)
(***************************************************************************)
IncludeColumn == "Include in Occupancy Calculation"
DeskcountColumns == {"OfficeLocation", "Date", "Deskcount", "RSF", IncludeColumn}
OccupancyColumns == {"Username", "OfficeLocation", "LineOfBusiness",
                     "OfficeLocationCityState", "LogonDate", "DayofWeek", "JobFamily"}

\* DataFrame.to_csv followed by pd.read_csv: a frame without columns is
\* written as an empty line, on which pd.read_csv raises EmptyDataError (NA)
to_csv(df) == IF df.columns = {} THEN NA ELSE Some(df)

(***************************************************************************)
(* src/clean_deskcount_data.py: the capacity cleaner.                      *)
(* A row of combined_data/Deskcount.csv is [office_location, date,         *)
(* deskcount, include].  A raw desk count that is missing or not numeric   *)
(* is NA after pd.to_numeric; the include cell is NA when empty.           *)
(***************************************************************************)
\* the column named 'include in occupancy calculation' in any case: None
\* when the table has none
include_col(df) == IncludeColumn \in df.columns

\* astype(str).str.strip().str.lower() of the include cells of the model
strip_lower(cell) ==
    IF isna(cell) THEN "nan"
    ELSE CASE Val(cell) = "Yes" -> "yes"
           [] Val(cell) = " yes " -> "yes"
           [] Val(cell) = "No" -> "no"
           [] OTHER -> Val(cell)

\* if include_col is not None: df = df[df[include_col]... == 'yes']
include_filter(df) ==
    IF include_col(df)
    THEN SelectSeq(df.rows, LAMBDA row : strip_lower(row.include) = "yes")
    ELSE df.rows

\* df[required_columns] raises KeyError unless the table has all of them
clean_deskcount_columns == {"OfficeLocation", "Deskcount", "Date"}

\* df[required_columns] renamed, office_location normalised
required_columns(row) ==
    [office_location |-> normalize_location(row.office_location),
     date |-> row.date,
     deskcount |-> row.deskcount]

\* a faulty variant: the raw desk counts kept as they are
nonpositive_to_na_skipped(row) == row

\* a faulty variant: only the negative desk counts become missing
nonpositive_to_na_negative_only(row) ==
    IF notna(row.deskcount) /\ Val(row.deskcount) < 0
    THEN [row EXCEPT !.deskcount = NA]
    ELSE row

\* df_clean.loc[df_clean['deskcount'] <= 0, 'deskcount'] = pd.NA
nonpositive_to_na(row) ==
    IF notna(row.deskcount) /\ Val(row.deskcount) <= 0
    THEN [row EXCEPT !.deskcount = NA]
    ELSE row

\* the sort columns of sort_values(['office_location', 'date'])
by_location_date(df) ==
    frame([i \in 1..Len(df) |-> <<name_order(df[i].office_location), df[i].date>>])

\* groupby('office_location')['deskcount'].ffill(): row i takes the last
\* present desk count among the rows of its location at or before i
ffill(df, i) ==
    LET prev == {j \in 1..i : /\ df[j].office_location = df[i].office_location
                              /\ notna(df[j].deskcount)}
    IN IF prev = {} THEN NA ELSE df[SetMax(prev)].deskcount

clean_deskcount_data(raw) ==
    LET df == include_filter(raw)
        df_clean == frame([i \in 1..Len(df) |-> required_columns(df[i])])
        flagged == frame([i \in 1..Len(df_clean) |-> nonpositive_to_na(df_clean[i])])
        sorted == StableSort(flagged, by_location_date(flagged))
    IN frame([i \in 1..Len(sorted) |->
                [sorted[i] EXCEPT !.deskcount = ffill(sorted, i)]])

(***************************************************************************)
(* The inputs of the fact builders.                                        *)
(*   DimDate.csv      the dates that stage 5 writes, ascending; the model   *)
(*                    keeps the day numbers 0..MaxDay of 2024-01-01 to      *)
(*                    2027-12-31                                            *)
(*   dim_location     the office_location column of DimLocation.csv        *)
(*   dim_lob          the lines of business, in name order                 *)
(*   occupancy        the cleaned attendance events, as the number of      *)
(*                    events of each <<logon_date, office_location,        *)
(*                    line_of_business>> that has an event                 *)
(*   Deskcount_cleaned.csv: rows [office_location, date, deskcount]        *)
(***************************************************************************)
\* src/create_dim_date.py: pd.date_range(start_date, end_date, freq='D')
create_dim_date == frame([i \in 1..(MaxDay + 1) |-> i - 1])

\* deskcount_data['date'].max(): NaT for an empty frame
latest_desk_date(desk) ==
    IF desk = <<>> THEN NA ELSE Some(SetMax({desk[i].date : i \in 1..Len(desk)}))

\* the dates that carry at least one event
logon_dates(occ) == {k[1] : k \in {x \in DOMAIN occ : occ[x] > 0}}
\* occupancy_data['logon_date'].min() and .max(): NaT without events
first_occ_date(occ) ==
    LET dates == logon_dates(occ)
    IN IF dates = {} THEN NA ELSE Some(SetMin(dates))
last_occ_date(occ) ==
    LET dates == logon_dates(occ)
    IN IF dates = {} THEN NA ELSE Some(SetMax(dates))

\* create_fact_occupancy_aggregated: the end of the covered window
coverage_end(occ, desk) ==
    LET last == last_occ_date(occ)
        latest == latest_desk_date(desk)
    IN IF notna(latest)
       THEN (IF isna(last) THEN NA
             ELSE IF Val(last) <= MonthEnd0(Val(latest))
                  THEN last
                  ELSE Some(MonthEnd0(Val(latest))))
       ELSE last

\* a comparison with NaT is False
le_date(d, bound) == notna(bound) /\ d <= Val(bound)
ge_date(d, bound) == notna(bound) /\ d >= Val(bound)

\* occupancy_data[occupancy_data['logon_date'] <= end]
scope_occupancy(occ, end) ==
    LET bound == end
    IN [k \in {x \in DOMAIN occ : le_date(x[1], bound)} |-> occ[k]]

\* create_fact_occupancy: dim_date[dim_date['date'] <= latest_desk_date]
scope_dim_date_lob(dd, desk) ==
    LET latest == latest_desk_date(desk)
    IN SelectSeq(dd, LAMBDA d : le_date(d, latest))

\* create_fact_occupancy_aggregated:
\* dim_date[(date >= first_occ_date) & (date <= coverage_end)]
scope_dim_date_agg(dd, occ, desk) ==
    LET first == first_occ_date(occ)
        end == coverage_end(occ, desk)
    IN SelectSeq(dd, LAMBDA d : ge_date(d, first) /\ le_date(d, end))

(***************************************************************************)
(* Step 1: the complete matrix, a cross merge in the order of its inputs.  *)
(***************************************************************************)
date_loc_lob(dd, dl, db) ==
    LET nl == Len(dl)
        nb == Len(db)
    IN frame([k \in 1..(Len(dd) * nl * nb) |->
          LET d == dd[((k - 1) \div (nl * nb)) + 1]
          IN [date_key |-> date_key_of(d),
              date |-> d,
              office_location |-> dl[(((k - 1) \div nb) % nl) + 1],
              line_of_business |-> db[((k - 1) % nb) + 1]]])

date_loc(dd, dl) ==
    LET nl == Len(dl)
    IN frame([k \in 1..(Len(dd) * nl) |->
          LET d == dd[((k - 1) \div nl) + 1]
          IN [date_key |-> date_key_of(d),
              date |-> d,
              office_location |-> dl[((k - 1) % nl) + 1]]])

(***************************************************************************)
(* Step 2: groupby(...).size(): one entry per observed combination; the    *)
(* rows with a missing group key are left out (dropna=True).               *)
(***************************************************************************)
attendance_counts_lob(occ) ==
    LET seen == {k \in DOMAIN occ : occ[k] > 0 /\ k[2] # NoLocation}
        keys == {<<date_key_of(k[1]), k[2], k[3]>> : k \in seen}
    IN [g \in keys |->
          SumOver(occ, {k \in seen : <<date_key_of(k[1]), k[2], k[3]>> = g})]

\* a faulty variant: the events of one line of business of the group instead of all
attendance_counts_agg_one_lob(occ) ==
    LET seen == {k \in DOMAIN occ : occ[k] > 0 /\ k[2] # NoLocation}
        keys == {<<date_key_of(k[1]), k[2]>> : k \in seen}
    IN [g \in keys |->
          LET group == {k \in seen : <<date_key_of(k[1]), k[2]>> = g}
          IN occ[CHOOSE k \in group : \A x \in group : k[3] <= x[3]]]

attendance_counts_agg(occ) ==
    LET seen == {k \in DOMAIN occ : occ[k] > 0 /\ k[2] # NoLocation}
        keys == {<<date_key_of(k[1]), k[2]>> : k \in seen}
    IN [g \in keys |->
          SumOver(occ, {k \in seen : <<date_key_of(k[1]), k[2]>> = g})]

(***************************************************************************)
(* Step 3: the left merge onto the matrix and fillna(0).                   *)
(***************************************************************************)
fillna0(x) == IF isna(x) THEN 0 ELSE Val(x)

\* keys[i] is the value of the 'on' columns in row i of the matrix
left_merge_counts(grid, keys, counts) ==
    frame([i \in 1..Len(grid) |->
       LET matched == IF keys[i] \in DOMAIN counts
                      THEN Some(counts[keys[i]]) ELSE NA
       IN [date_key |-> grid[i].date_key,
           date |-> grid[i].date,
           office_location |-> grid[i].office_location,
           line_of_business |-> grid[i].line_of_business,
           attendance_count |-> fillna0(matched)]])

\* on=['date_key', 'office_location', 'line_of_business']
key_lob(r) == <<r.date_key, r.office_location, r.line_of_business>>
on_lob(grid) == frame([i \in 1..Len(grid) |-> key_lob(grid[i])])
\* on=['date_key', 'office_location']
key_agg(r) == <<r.date_key, r.office_location>>
on_agg(grid) == frame([i \in 1..Len(grid) |-> key_agg(grid[i])])

\* the aggregated matrix has no line of business: the model keeps the column
\* with the value 0 so that both facts have rows of one shape
with_no_lob(grid) ==
    frame([i \in 1..Len(grid) |->
       [date_key |-> grid[i].date_key, date |-> grid[i].date,
        office_location |-> grid[i].office_location, line_of_business |-> 0]])

fill_lob(grid, occ) ==
    left_merge_counts(grid, on_lob(grid), attendance_counts_lob(occ))

fill_agg(grid, occ) ==
    left_merge_counts(with_no_lob(grid), on_agg(grid), attendance_counts_agg(occ))

(***************************************************************************)
(* Step 4: the backward as-of join of the desk counts.                     *)
(***************************************************************************)
\* the sort columns of sort_values(['date', 'office_location'], kind='mergesort')
by_date_location(df) ==
    frame([i \in 1..Len(df) |-> <<df[i].date, name_order(df[i].office_location)>>])

\* create_fact_occupancy sorts both frames by office_location, then date
sort_for_asof_lob(df) == StableSort(df, by_location_date(df))
\* create_fact_occupancy_aggregated sorts both frames by date, then office_location
sort_for_asof_agg(df) == StableSort(df, by_date_location(df))

\* pd.merge_asof raises ValueError("left keys must be sorted") or
\* ("right keys must be sorted") unless the 'on' column of each frame is
\* non-decreasing over the whole frame
merge_asof_accepts(left, right) ==
    is_monotonic_increasing(left) /\ is_monotonic_increasing(right)

\* a faulty variant: of several snapshots of the matched date, the first instead of the last
asof_deskcount_first_of_date(right, row) ==
    LET cand == {j \in 1..Len(right) :
                    /\ right[j].office_location = row.office_location
                    /\ right[j].date <= row.date}
        latest == SetMax({right[j].date : j \in cand})
    IN IF cand = {} THEN NA
       ELSE right[SetMin({j \in cand : right[j].date = latest})].deskcount

\* a faulty variant: allow_exact_matches=False, a snapshot applies from the day after
asof_deskcount_strict(right, row) ==
    LET cand == {j \in 1..Len(right) :
                    /\ right[j].office_location = row.office_location
                    /\ right[j].date < row.date}
    IN IF cand = {} THEN NA ELSE right[SetMax(cand)].deskcount

\* direction='backward', by='office_location': the last right row, in the
\* order of the right frame, of the same location and dated at or before
\* the left row; NaN without one
asof_deskcount(right, row) ==
    LET cand == {j \in 1..Len(right) :
                    /\ right[j].office_location = row.office_location
                    /\ right[j].date <= row.date}
    IN IF cand = {} THEN NA ELSE right[SetMax(cand)].deskcount

merge_asof(left, right) ==
    frame([i \in 1..Len(left) |->
       [date_key |-> left[i].date_key,
        date |-> left[i].date,
        office_location |-> left[i].office_location,
        line_of_business |-> left[i].line_of_business,
        attendance_count |-> left[i].attendance_count,
        deskcount |-> asof_deskcount(right, left[i])]])

(***************************************************************************)
(* Step 5: occupancy rate.  The rate attendance_count / deskcount is kept  *)
(* as the fraction <<numerator, denominator>> in lowest terms.             *)
(***************************************************************************)
RECURSIVE gcd(_, _)
gcd(a, b) == IF b = 0 THEN a ELSE gcd(b, a % b)

\* a / b for b > 0: the quotient as the fraction in lowest terms
quotient(a, b) == <<a \div gcd(a, b), b \div gcd(a, b)>>

\* a faulty variant: a missing capacity coerced to the rate 0
occupancy_rate_coerced(attendance, dc) ==
    IF notna(dc) /\ Val(dc) > 0 THEN Some(quotient(attendance, Val(dc))) ELSE Some(<<0, 1>>)

\* (fact_table['attendance_count'] / dc).where(dc > 0)
occupancy_rate(attendance, dc) ==
    IF notna(dc) /\ Val(dc) > 0 THEN Some(quotient(attendance, Val(dc))) ELSE NA

add_occupancy_rate(ft) ==
    frame([i \in 1..Len(ft) |->
       [date_key |-> ft[i].date_key,
        date |-> ft[i].date,
        office_location |-> ft[i].office_location,
        line_of_business |-> ft[i].line_of_business,
        attendance_count |-> ft[i].attendance_count,
        deskcount |-> ft[i].deskcount,
        occupancy_rate |-> occupancy_rate(ft[i].attendance_count, ft[i].deskcount)]])

(***************************************************************************)
(* Step 6: calculate_hybrid_day_flags.                                     *)
(***************************************************************************)
\* fact_table[['date']].drop_duplicates()
date_df(ft) == {ft[i].date : i \in 1..Len(ft)}

\* weekday_counts: the number of distinct Monday-Friday dates of the frame in
\* one (week_start, month); a pair without any weekday has no entry and the
\* left merge and fillna(0) give it 0
weekday_count_in_month_week(dates, ws, m) ==
    Cardinality({d \in dates : /\ dayofweek(d) < 5
                               /\ week_start(d) = ws
                               /\ month_of(d) = m})

\* a faulty variant: more than 3 weekdays asked of the month
eligible_date_more_than_3(dates, d) ==
    /\ dayofweek(d) < 5
    /\ weekday_count_in_month_week(dates, week_start(d), month_of(d)) > 3

\* a faulty variant: the weekday test without the month rule
eligible_date_any_weekday(dates, d) == dayofweek(d) < 5

\* date_elig['eligible_date']
eligible_date(dates, d) ==
    /\ dayofweek(d) < 5
    /\ weekday_count_in_month_week(dates, week_start(d), month_of(d)) >= 3

\* the dates of the frame that are eligible
eligible_dates(dates) == {d \in dates : eligible_date(dates, d)}

\* the group keys ['office_location', 'week_start', 'date'], which order the
\* result of a groupby
group_key(row) == <<row.office_location, week_start(row.date), row.date>>
by_location_week_date(df) == frame([i \in 1..Len(df) |-> group_key(df[i])])

\* the groups of a frame, in the order of the group keys
groups_in_key_order(df) ==
    LET sorted == StableSort(df, by_location_week_date(df))
        marked == frame([i \in 1..Len(sorted) |->
                     [key |-> group_key(sorted[i]),
                      first |-> \/ i = 1
                                \/ group_key(sorted[i]) # group_key(sorted[i - 1])]])
        firsts == SelectSeq(marked, LAMBDA g : g.first)
    IN frame([i \in 1..Len(firsts) |-> firsts[i].key])

\* ['attendance_count'].sum(): the rows from row i on added to the sums of
\* their groups
RECURSIVE sum_by_group(_, _, _)
sum_by_group(df, i, acc) ==
    IF i > Len(df) THEN acc
    ELSE sum_by_group(df, i + 1,
            [acc EXCEPT ![group_key(df[i])] = @ + df[i].attendance_count])

\* a faulty variant: the largest attendance_count of the group instead of the sum
daily_total_attendance_max(ft) ==
    [k \in {group_key(ft[i]) : i \in 1..Len(ft)} |->
        SetMax({ft[i].attendance_count :
                   i \in {j \in 1..Len(ft) : group_key(ft[j]) = k}})]

\* the attendance of each (office_location, week_start, date) summed over
\* all the rows of the group, whatever their line of business
daily_total_attendance(ft) ==
    sum_by_group(ft, 1, [k \in {group_key(ft[i]) : i \in 1..Len(ft)} |-> 0])

\* fact_table.groupby(['office_location', 'week_start', 'date'])
\*     ['attendance_count'].sum().reset_index(): one row per group, in the
\* order of the group keys, merged with the eligibility of its date
daily_totals(ft) ==
    LET groups == groups_in_key_order(ft)
        total == daily_total_attendance(ft)
        eligible == eligible_dates(date_df(ft))
    IN frame([i \in 1..Len(groups) |->
          [office_location |-> groups[i][1],
           week_start |-> groups[i][2],
           date |-> groups[i][3],
           daily_total_attendance |-> total[groups[i]],
           eligible |-> groups[i][3] \in eligible]])

\* create_fact_occupancy:
\* daily_totals[daily_totals['eligible'] & (daily_totals['daily_total_attendance'] > 0)]
daily_totals_eligible_lob(dt) ==
    SelectSeq(dt, LAMBDA r : r.eligible /\ r.daily_total_attendance > 0)

\* create_fact_occupancy_aggregated: daily_totals[daily_totals['eligible']]
daily_totals_eligible_agg(dt) ==
    SelectSeq(dt, LAMBDA r : r.eligible)

\* the sort columns of sort_values(['office_location', 'week_start',
\* 'daily_total_attendance'], ascending=[True, True, False])
by_location_week_attendance_desc(df) ==
    frame([i \in 1..Len(df) |->
        <<df[i].office_location, df[i].week_start, 0 - df[i].daily_total_attendance>>])

\* a faulty variant: the first 3 rows of each week over all locations
head3_of_week(df) ==
    {df[i] : i \in {k \in 1..Len(df) :
        Cardinality({j \in 1..(k - 1) : df[j].week_start = df[k].week_start}) < 3}}

\* groupby(['office_location', 'week_start']).head(3)
head3(df) ==
    {df[i] : i \in {k \in 1..Len(df) :
        Cardinality({j \in 1..(k - 1) :
            /\ df[j].office_location = df[k].office_location
            /\ df[j].week_start = df[k].week_start}) < 3}}

\* set(zip(top3['office_location'], top3['week_start'], top3['date']))
top_keys(dte) ==
    {<<r.office_location, r.week_start, r.date>> :
        r \in head3(StableSort(dte, by_location_week_attendance_desc(dte)))}

\* the flag of one row: in the top-3 set, and the hard eligibility guard
is_hybrid_day(keys, eligible, row) ==
    /\ group_key(row) \in keys
    /\ row.date \in eligible

flag_rows(ft, keys) ==
    LET eligible == eligible_dates(date_df(ft))
    IN
    frame([i \in 1..Len(ft) |->
       [date_key |-> ft[i].date_key,
        date |-> ft[i].date,
        office_location |-> ft[i].office_location,
        line_of_business |-> ft[i].line_of_business,
        year |-> year_of(ft[i].date),
        month |-> month_of(ft[i].date),
        attendance_count |-> ft[i].attendance_count,
        deskcount |-> ft[i].deskcount,
        occupancy_rate |-> ft[i].occupancy_rate,
        is_hybrid_day |-> is_hybrid_day(keys, eligible, ft[i])]])

calculate_hybrid_day_flags_lob(ft) ==
    flag_rows(ft, top_keys(daily_totals_eligible_lob(daily_totals(ft))))

calculate_hybrid_day_flags_agg(ft) ==
    flag_rows(ft, top_keys(daily_totals_eligible_agg(daily_totals(ft))))

(***************************************************************************)
(* Step 7: the weekend flag and the final order.                           *)
(***************************************************************************)
\* fact_table['date'].dt.dayofweek >= 5
is_weekend(d) == dayofweek(d) >= 5

\* the sort columns of sort_values(['date_key', 'office_location',
\* 'line_of_business']) and, in the aggregated fact, of
\* sort_values(['date_key', 'office_location'])
by_key_location_lob(df) ==
    frame([i \in 1..Len(df) |->
        <<df[i].date_key, df[i].office_location, df[i].line_of_business>>])

final_columns(ft) ==
    frame([i \in 1..Len(ft) |->
       [date_key |-> ft[i].date_key,
        date |-> ft[i].date,
        office_location |-> ft[i].office_location,
        line_of_business |-> ft[i].line_of_business,
        year |-> ft[i].year,
        month |-> ft[i].month,
        is_weekend |-> is_weekend(ft[i].date),
        attendance_count |-> ft[i].attendance_count,
        deskcount |-> ft[i].deskcount,
        occupancy_rate |-> ft[i].occupancy_rate,
        is_hybrid_day |-> ft[i].is_hybrid_day]])

final_table(ft) == StableSort(final_columns(ft), by_key_location_lob(final_columns(ft)))

(***************************************************************************)
(* The state: the files of the working directory and the running stage.    *)
(* A file that is not there is NA, a file that is there is Some(content).  *)
(***************************************************************************)
VARIABLES
    Inputs,                   \* Inputs/<Type>/: the workbooks of each type, in path order;
                              \* NA without the directory Inputs
    converted_data,           \* converted_data/<Type>/: the CSV files, in file name order;
                              \* NA without the directory converted_data
    Deskcount_csv,            \* combined_data/Deskcount.csv
    Occupancy_csv,            \* combined_data/Occupancy.csv
    Occupancy_cleaned,        \* cleaned_data/Occupancy_cleaned.csv
    Deskcount_cleaned,        \* cleaned_data/Deskcount_cleaned.csv
    DimDate,                  \* dimensions/DimDate.csv
    DimLocation,              \* dimensions/DimLocation.csv
    DimLineOfBusiness,        \* dimensions/DimLineOfBusiness.csv
    variant,                  \* the fact builder that is running: "lob", "agg" or "none"
    pc,                       \* the next step of the running stage
    dim_date,                 \* the builder's local data frames
    occupancy_data,
    deskcount_data,
    fact_table,
    FactOccupancy,            \* facts/FactOccupancy.csv
    FactOccupancyAggregated,  \* facts/FactOccupancyAggregated.csv
    built_from,               \* what each written file was computed from
    raised                    \* the exception the stage ended with, "none" otherwise

\* the orchestrator (run_pipeline.py, main.py)
VARIABLES
    args,                     \* the parsed command line
    disk,                     \* the datasets present in the working directory
    plan,                     \* the stage numbers to run, in run order
    position,                 \* the loop's place in plan
    checked,                  \* the stages whose prerequisite check was evaluated, in order
    executed,                 \* the stages whose function was called, in order
    validate_called,          \* validation_report.validate was called
    publish_called,           \* publish_to_delta.publish_fact_occupancy_aggregated was called
    publish_raised,           \* that call ended with an exception
    rc,                       \* the return code of run_pipeline.main, then of the command
    run_pc                    \* where the orchestrator is

builder == <<Inputs, converted_data, Deskcount_csv, Occupancy_csv, Occupancy_cleaned,
             Deskcount_cleaned, DimDate, DimLocation, DimLineOfBusiness, variant, pc, dim_date,
             occupancy_data, deskcount_data, fact_table, FactOccupancy,
             FactOccupancyAggregated, built_from, raised>>

orchestrator == <<args, disk, plan, position, checked, executed, validate_called,
                  publish_called, publish_raised, rc, run_pc>>

vars == <<builder, orchestrator>>

inputs == <<Inputs, converted_data, Deskcount_csv, Occupancy_csv, Occupancy_cleaned,
            DimDate, DimLocation, DimLineOfBusiness>>
files == <<FactOccupancy, FactOccupancyAggregated>>
frames == <<dim_date, occupancy_data, deskcount_data, fact_table>>

\* pd.read_csv of a file that is there
raw_deskcount == Val(Deskcount_csv)
raw_occupancy == Val(Occupancy_csv)
occupancy == Val(Occupancy_cleaned)
dim_location == Val(DimLocation)
dim_lob == Val(DimLineOfBusiness)

(***************************************************************************)
(* The inputs the model runs on.                                           *)
(***************************************************************************)
Days == 0..MaxDay
Locations == {1, 2}
Lobs == {1, 2}

\* events: a set of records [date, loc, lob, n], n rows of one
\* <<logon_date, office_location, line_of_business>>
occupancy_of(events) ==
    [k \in {<<e.date, e.loc, e.lob>> : e \in {x \in events : x.n > 0}} |->
        SumOver([e \in events |-> e.n],
                {e \in events : <<e.date, e.loc, e.lob>> = k})]

(***************************************************************************)
(* src/clean_occupancy_data.py.  A row of combined_data/Occupancy.csv is   *)
(* [username, office_location, line_of_business, logon_date]; a line of    *)
(* business is NA when the cell is empty.  The names of the lines of       *)
(* business, in name order: 'Corporate', then 'Development and             *)
(* Construction'; 'Pending' and 'Development & Construction' are raw       *)
(* names only.                                                             *)
(***************************************************************************)
Corporate == 1
DevelopmentAndConstruction == 2
Pending == 3
DevelopmentAmpConstruction == 4

\* step 3a: df[required_columns] raises KeyError unless the table has all
\* of them
clean_occupancy_columns == OccupancyColumns

\* step 3e: NaN -> Corporate, Pending -> Corporate, the '&' name renamed
standardize_line_of_business(lob) ==
    IF isna(lob) \/ lob = Some(Pending) THEN Corporate
    ELSE IF lob = Some(DevelopmentAmpConstruction) THEN DevelopmentAndConstruction
    ELSE Val(lob)

\* step 3c: the subset of drop_duplicates
duplicate_key(row) == <<row.username, row.logon_date, row.office_location>>

\* step 3c, keep='first': the rows with no earlier row of the same key
drop_duplicates(df) ==
    {i \in 1..Len(df) :
        \A j \in 1..(i - 1) : duplicate_key(df[j]) # duplicate_key(df[i])}

\* the <<logon_date, office_location, line_of_business>> of a cleaned row
event_key(row) ==
    <<row.logon_date, row.office_location,
      standardize_line_of_business(row.line_of_business)>>

\* Occupancy_cleaned.csv as the number of rows of each
\* <<logon_date, office_location, line_of_business>> that has a row
clean_occupancy_data(raw) ==
    LET df == frame([i \in 1..Len(raw.rows) |->
                  [raw.rows[i] EXCEPT !.office_location = normalize_location(@)]])
        kept == drop_duplicates(df)
    IN [k \in {event_key(df[i]) : i \in kept} |->
          Cardinality({i \in kept : event_key(df[i]) = k})]

\* sorted(...unique()): the values in ascending order
RECURSIVE sorted_unique(_)
sorted_unique(S) ==
    IF S = {} THEN <<>>
    ELSE <<SetMin(S)>> \o sorted_unique(S \ {SetMin(S)})

(***************************************************************************)
(* src/create_dim_location.py.  The model keeps the office_location column *)
(* of DimLocation.csv.                                                     *)
(***************************************************************************)
\* step 6a: the office locations of the cleaned events, normalised, the
\* missing ones dropped, in name order
unique_locations(occ) ==
    sorted_unique({normalize_location(k[2]) :
                      k \in {c \in DOMAIN occ : occ[c] > 0 /\ c[2] # NoLocation}})

\* the texts of a set in the order of strings
RECURSIVE in_name_order(_)
in_name_order(S) ==
    IF S = {} THEN <<>>
    ELSE LET first == CHOOSE x \in S : \A y \in S : name_order(x) <= name_order(y)
         IN <<first>> \o in_name_order(S \ {first})

\* groupby('OfficeLocation').agg(...).reset_index() raises KeyError unless
\* the table has these columns
create_dim_location_columns == {"OfficeLocation", "RSF", "Date"}

\* step 6b: one row for every spelling of an office location in
\* Deskcount.csv, in the order of the spellings, and then the normalised
\* office_location of each row
rsf_data(desk) ==
    LET spellings == in_name_order({desk.rows[i].office_location : i \in 1..Len(desk.rows)}
                                   \ {NoLocation})
    IN frame([i \in 1..Len(spellings) |-> normalize_location(spellings[i])])

\* step 6c: dim_location.merge(rsf_data, on='office_location', how='left'):
\* a location has one row for every row of rsf_data of its name, and one
\* row when there is none
RECURSIVE left_merge_rsf(_, _)
left_merge_rsf(locations, rsf) ==
    IF locations = <<>> THEN <<>>
    ELSE LET matched == SelectSeq(rsf, LAMBDA name : name = Head(locations))
         IN (IF matched = <<>> THEN <<Head(locations)>> ELSE matched)
            \o left_merge_rsf(Tail(locations), rsf)

create_dim_location(occ, desk) ==
    left_merge_rsf(unique_locations(occ), rsf_data(desk))

\* src/create_dim_line_of_business.py: the lines of business of the cleaned
\* events in name order
create_dim_line_of_business(occ) ==
    sorted_unique({k[3] : k \in {c \in DOMAIN occ : occ[c] > 0}})

(***************************************************************************)
(* src/convert_xlsx_to_csv.py.  A workbook is [stem, sheet]: stem is the   *)
(* year-month that the file name holds (NA without one; no file name of    *)
(* the model holds the name of a month), sheet is the table of the first   *)
(* sheet (NA when pd.read_excel raises).  A year-month is the number of    *)
(* the month of 2024.  A CSV file is [name, df]: the year-month of its     *)
(* name and what pd.read_csv makes of it (NA when it raises).              *)
(***************************************************************************)
workbook(stem, sheet) == [stem |-> stem, sheet |-> sheet]
file(name, df) == [name |-> name, df |-> df]

\* a CSV file with a name of the old kind, without a year-month; it comes
\* after the names that start with a year
LegacyName == 13

\* _infer_deskcount_year_month: the month of the latest 'Date' of the sheet
infer_deskcount_year_month(df) ==
    IF "Date" \in df.columns /\ df.rows # <<>>
    THEN Some(month_of(SetMax({df.rows[i].date : i \in 1..Len(df.rows)})))
    ELSE NA

\* _infer_occupancy_year_month: the month of the latest 'LogonDate'
infer_occupancy_year_month(df) ==
    IF "LogonDate" \in df.columns /\ df.rows # <<>>
    THEN Some(month_of(SetMax({df.rows[i].logon_date : i \in 1..Len(df.rows)})))
    ELSE NA

\* the year-month of the output file name: from the file name, else from
\* the sheet; NA is "Unable to infer year-month"
year_month(data_type, book) ==
    IF notna(book.stem) THEN book.stem
    ELSE IF data_type = "Deskcount"
         THEN infer_deskcount_year_month(Val(book.sheet))
         ELSE infer_occupancy_year_month(Val(book.sheet))

\* df.to_csv(output_dir / data_type / csv_filename): a file of that name is
\* replaced
write_csv(dir, name, df) ==
    SelectSeq(dir, LAMBDA f : f.name < name)
    \o <<file(name, to_csv(df))>>
    \o SelectSeq(dir, LAMBDA f : f.name > name)

\* the loop over sorted(files): out.dir is the directory of the type after
\* the files so far, out.failures says that one of them failed
RECURSIVE convert_files(_, _, _)
convert_files(data_type, books, out) ==
    IF books = <<>> THEN out
    ELSE LET book == Head(books)
             ym == IF isna(book.sheet) THEN NA ELSE year_month(data_type, book)
         IN convert_files(data_type, Tail(books),
               IF isna(ym)
               THEN [out EXCEPT !.failures = TRUE]
               ELSE [out EXCEPT !.dir = write_csv(@, Val(ym), Val(book.sheet))])

\* one directory of Inputs: without workbooks it is a failure
convert_type(data_type, books, dir) ==
    convert_files(data_type, books, [dir |-> dir, failures |-> books = <<>>])

\* output_dir.mkdir(exist_ok=True) and the same for both types
mkdir(converted) ==
    IF isna(converted) THEN [Deskcount |-> <<>>, Occupancy |-> <<>>] ELSE Val(converted)

(***************************************************************************)
(* src/combine_csv_files.py.                                               *)
(***************************************************************************)
\* the files taken from the directory of a type: those named
\* YYYY-MM_<Type>.csv, or every CSV file when there is none
csv_files(dir) ==
    LET new_style == SelectSeq(dir, LAMBDA f : f.name # LegacyName)
    IN IF new_style # <<>> THEN new_style ELSE dir

\* the tables of the files that could be read
RECURSIVE all_dataframes(_)
all_dataframes(fs) ==
    IF fs = <<>> THEN <<>>
    ELSE (IF isna(Head(fs).df) THEN <<>> ELSE <<Val(Head(fs).df)>>)
         \o all_dataframes(Tail(fs))

RECURSIVE concat_rows(_)
concat_rows(dfs) ==
    IF dfs = <<>> THEN <<>> ELSE Head(dfs).rows \o concat_rows(Tail(dfs))

\* pd.concat(all_dataframes, ignore_index=True): the columns of all the
\* tables, the rows one table after the other
concat(dfs) ==
    [columns |-> UNION {dfs[i].columns : i \in 1..Len(dfs)},
     rows |-> concat_rows(dfs)]

\* the combined file of a type after the loop over its files: written when
\* at least one file could be read, left as it was otherwise
combined(fs, old) ==
    IF all_dataframes(fs) = <<>> THEN old ELSE to_csv(concat(all_dataframes(fs)))

(***************************************************************************)
(* Scenarios.                                                              *)
(***************************************************************************)
\* a row of Deskcount.csv, and a Deskcount.csv without the include column
snapshot(l, d, c) == [office_location |-> l, date |-> d, deskcount |-> c, include |-> NA]
deskcount_csv(rows) == [columns |-> DeskcountColumns \ {IncludeColumn}, rows |-> rows]
occupancy_csv(rows) == [columns |-> OccupancyColumns, rows |-> rows]

\* Attendance scenarios: every number 0..MaxAtt of events of location 1 on
\* each Monday-Friday of one focus week.  The focus weeks are the week of
\* 2024-01-08 (all five weekdays in January), the week of 2024-01-29
\* (three weekdays in January, two in February) and the week of 2024-02-26
\* (four weekdays in February, one in March).
Weekdays == 0..4

\* n events of one date and location, shared between the two lines of
\* business: the line `first` takes the first, third, ... event
split(n, first, lob) == IF lob = first THEN (n + 1) \div 2 ELSE n \div 2

week_events(fw, totals, first) ==
    {[date |-> fw + i, loc |-> 1, lob |-> b, n |-> split(totals[i], first, b)] :
        i \in Weekdays, b \in Lobs}

\* events of location 2 on the Friday before and the Sunday of the focus week
anchor_events(fw) ==
    {[date |-> fw - 3, loc |-> 2, lob |-> 1, n |-> 1],
     [date |-> fw + 6, loc |-> 2, lob |-> 2, n |-> 1]}

\* events of both locations on 2024-01-01
first_day_events ==
    {[date |-> 0, loc |-> 1, lob |-> 1, n |-> MaxAtt],
     [date |-> 0, loc |-> 2, lob |-> 2, n |-> 1]}

\* "full":  one location, snapshots on the Monday and the Sunday of the week
\* "cut":   one location, the only snapshot on the Tuesday of the week
\* "two":   two locations, location 2 with events around the week
\* "first": two locations with events around the week and on 2024-01-01,
\*          every snapshot dated 2024-01-01
AttendanceLayouts ==
    {[fw |-> 7, kind |-> "full", first |-> 1],
     [fw |-> 7, kind |-> "full", first |-> 2],
     [fw |-> 7, kind |-> "two", first |-> 1],
     [fw |-> 7, kind |-> "first", first |-> 1],
     [fw |-> 28, kind |-> "full", first |-> 1],
     [fw |-> 28, kind |-> "cut", first |-> 1],
     [fw |-> 28, kind |-> "two", first |-> 1],
     [fw |-> 56, kind |-> "full", first |-> 1]}

layout_locations(a) == IF a.kind \in {"two", "first"} THEN <<1, 2>> ELSE <<1>>

layout_events(a, totals) ==
    IF a.kind = "two"
    THEN week_events(a.fw, totals, a.first) \cup anchor_events(a.fw)
    ELSE IF a.kind = "first"
    THEN week_events(a.fw, totals, a.first) \cup anchor_events(a.fw)
         \cup first_day_events
    ELSE week_events(a.fw, totals, a.first)

layout_snapshots(a) ==
    IF a.kind = "full"
    THEN <<snapshot(1, a.fw, Some(1)), snapshot(1, a.fw + 6, Some(MaxDesk))>>
    ELSE IF a.kind = "cut"
    THEN <<snapshot(1, a.fw + 1, Some(1))>>
    ELSE IF a.kind = "first"
    THEN <<snapshot(1, 0, Some(1)), snapshot(2, 0, Some(MaxDesk))>>
    ELSE <<snapshot(1, a.fw, Some(1)), snapshot(2, a.fw + 3, Some(MaxDesk))>>

\* combined_data/Occupancy.csv with one row for every event, each of its own
\* user
occupancy_row(u, l, b, d) ==
    [username |-> u, office_location |-> l, line_of_business |-> b, logon_date |-> d]

RECURSIVE occupancy_rows(_)
occupancy_rows(events) ==
    IF events = {} THEN <<>>
    ELSE LET e == CHOOSE x \in events : \A y \in events : x.date <= y.date
         IN frame([u \in 1..e.n |-> occupancy_row(<<e.lob, u>>, e.loc, Some(e.lob), e.date)])
            \o occupancy_rows(events \ {e})

\* the files of one working directory where stages 1 to 4 ran on the
\* workbooks that are there, each type one workbook named after January;
\* the dimensions may be older
one_run(dl, db, events, raw) ==
    [dd |-> Some(create_dim_date), dl |-> Some(dl), db |-> Some(db),
     occupancy |-> Some(occupancy_of(events)),
     raw |-> Some(raw),
     raw_occupancy |-> Some(occupancy_csv(occupancy_rows(events))),
     inputs |-> Some([Deskcount |-> <<workbook(Some(1), Some(raw))>>,
                      Occupancy |-> <<workbook(Some(1),
                                               Some(occupancy_csv(occupancy_rows(events))))>>]),
     converted |-> Some([Deskcount |-> <<file(1, Some(raw))>>,
                         Occupancy |-> <<file(1, Some(occupancy_csv(occupancy_rows(events))))>>])]

\* the events of the weekdays: up to MaxAtt on Tuesday to Thursday, none
\* or one on Monday and on Friday
WeekTotals == {t \in [Weekdays -> 0..MaxAtt] : t[0] <= 1 /\ t[4] <= 1}

AttendanceScenarios ==
    {one_run(layout_locations(a), <<1, 2>>, layout_events(a, totals),
             deskcount_csv(layout_snapshots(a))) :
        a \in AttendanceLayouts, totals \in WeekTotals}

\* Capacity scenarios: up to MaxSnap raw snapshots of location 1 in any
\* input order, dated 2024-01-02 (a missing or a positive desk count) or
\* 2024-01-04 (any desk count), and events of location 1 on 2024-01-01,
\* 2024-01-04 and 2024-01-05.
SnapshotDates == {1, 3}
RawDeskcounts == {NA, Some(0 - 1), Some(0), Some(1), Some(MaxDesk)}
RawSnapshots ==
    {snapshot(1, d, c) : d \in SnapshotDates, c \in {NA, Some(1), Some(MaxDesk)}}
    \cup {snapshot(1, 3, c) : c \in RawDeskcounts}

RECURSIVE SeqsUpTo(_, _)
SeqsUpTo(S, n) ==
    IF n = 0 THEN {<<>>}
    ELSE LET shorter == SeqsUpTo(S, n - 1)
         IN shorter \cup {Append(q, x) : q \in shorter, x \in S}

capacity_events ==
    {[date |-> 0, loc |-> 1, lob |-> 1, n |-> 1],
     [date |-> 2, loc |-> 2, lob |-> 2, n |-> 1],
     [date |-> 3, loc |-> 1, lob |-> 1, n |-> 1],
     [date |-> 4, loc |-> 1, lob |-> 2, n |-> 1]}

CapacityScenarios ==
    {one_run(<<1>>, <<1, 2>>, {e \in capacity_events : e.loc = 1}, deskcount_csv(raw)) :
        raw \in SeqsUpTo(RawSnapshots, MaxSnap) \ {<<>>}}

\* Scenarios with events that carry no office_location: DimLocation holds
\* the locations that are not missing
NoLocationScenarios ==
    {one_run(<<1>>, <<1, 2>>,
             {[date |-> 1, loc |-> 1, lob |-> 1, n |-> 1],
              [date |-> d, loc |-> NoLocation, lob |-> 1, n |-> 1],
              [date |-> 3, loc |-> 1, lob |-> 2, n |-> 1]},
             deskcount_csv(<<snapshot(1, 3, Some(1))>>)) : d \in {0, 2, 4}}

\* Scenarios with the column 'Include in Occupancy Calculation': a snapshot
\* of 2024-01-02 with any include cell and a snapshot of 2024-01-04 that is
\* included, in both file orders
IncludeCells == {NA, Some("Yes"), Some(" yes "), Some("No")}
included_snapshot(l, d, c, cell) == [snapshot(l, d, c) EXCEPT !.include = cell]

IncludeScenarios ==
    {one_run(<<1>>, <<1, 2>>, {e \in capacity_events : e.loc = 1},
             [columns |-> DeskcountColumns,
              rows |-> IF swap THEN <<included_snapshot(1, 3, c, later),
                                      included_snapshot(1, 1, Some(MaxDesk), cell)>>
                       ELSE <<included_snapshot(1, 1, Some(MaxDesk), cell),
                              included_snapshot(1, 3, c, later)>>]) :
        cell \in IncludeCells, later \in {Some("Yes"), Some(" yes ")},
        c \in {Some(0), Some(1)}, swap \in BOOLEAN}

\* Scenarios where the files stem from different runs: the converted files
\* and the combined occupancy file changed after the cleaned files and the
\* dimensions were written, and Inputs holds no workbook any more
OlderOccupancy ==
    occupancy_csv(<<occupancy_row(<<1, 1>>, 1, Some(Corporate), 1),
                    occupancy_row(<<1, 1>>, 1 + Padded, NA, 1),
                    occupancy_row(<<1, 2>>, 1, Some(Pending), 1),
                    occupancy_row(<<1, 2>>, 1, Some(DevelopmentAmpConstruction), 3)>>)

RawOccupancies ==
    {OlderOccupancy,
     occupancy_csv(<<occupancy_row(<<1, 1>>, 2, Some(DevelopmentAndConstruction), 2),
                     occupancy_row(<<1, 1>>, NoLocation, NA, 2),
                     occupancy_row(<<1, 1>>, 2, Some(Corporate), 2)>>)}

ConvertedDeskcounts ==
    {<<>>,
     <<file(1, NA)>>,
     <<file(1, Some(deskcount_csv(<<snapshot(1, 1, Some(1))>>))),
       file(2, Some([columns |-> DeskcountColumns,
                     rows |-> <<included_snapshot(1 + Padded, 3, Some(MaxDesk), Some("Yes")),
                                included_snapshot(2, 3, Some(1), Some("No"))>>]))>>,
     <<file(1, NA), file(2, Some(deskcount_csv(<<snapshot(2, 1, Some(1))>>)))>>,
     <<file(2, Some(deskcount_csv(<<snapshot(1, 3, Some(MaxDesk))>>))),
       file(LegacyName, Some(deskcount_csv(<<snapshot(1, 1, Some(1))>>)))>>}

ConvertedOccupancies ==
    {<<>>, <<file(1, NA)>>} \cup {<<file(1, Some(r))>> : r \in RawOccupancies}

UpstreamScenarios ==
    {[dd |-> Some(create_dim_date), dl |-> Some(<<1>>), db |-> Some(<<1, 2>>),
      occupancy |-> Some(occupancy_of({e \in capacity_events : e.loc = 1})),
      raw |-> Some(deskcount_csv(<<snapshot(1, 3, Some(1))>>)),
      raw_occupancy |-> Some(OlderOccupancy),
      inputs |-> Some([Deskcount |-> <<>>, Occupancy |-> <<>>]),
      converted |-> Some([Deskcount |-> cd, Occupancy |-> co])] :
        cd \in ConvertedDeskcounts, co \in ConvertedOccupancies}

\* Scenarios of a working directory that holds the workbooks only.
\* The desk count workbooks: one sheet with two spellings of location 1;
\* two workbooks of one year-month, the later without the RSF column and
\* with the name followed by a blank and a full stop; a workbook named
\* without a year-month and dated in February together with an empty sheet;
\* a workbook that cannot be read together with one without the Deskcount
\* column; no workbook.
EmptySheet == [columns |-> {}, rows |-> <<>>]

InputDeskcounts ==
    {<<workbook(Some(1), Some(deskcount_csv(<<snapshot(1, 1, Some(1)),
                                               snapshot(1 + Padded, 3, Some(MaxDesk))>>)))>>,
     <<workbook(Some(1), Some(deskcount_csv(<<snapshot(1, 1, Some(1))>>))),
       workbook(Some(1), Some([columns |-> {"OfficeLocation", "Date", "Deskcount"},
                               rows |-> <<snapshot(1, 1, Some(MaxDesk)),
                                          snapshot(1 + 2 * Padded, 3, Some(1))>>]))>>,
     <<workbook(NA, Some(deskcount_csv(<<snapshot(1, 3, Some(1)),
                                         snapshot(1, 31, Some(MaxDesk))>>))),
       workbook(Some(1), Some(EmptySheet))>>,
     <<workbook(Some(1), NA),
       workbook(Some(2), Some([columns |-> {"OfficeLocation", "Date", "RSF"},
                               rows |-> <<snapshot(1, 3, NA)>>]))>>,
     <<>>}

\* The occupancy workbooks: events of location 1 under three spellings;
\* a sheet without rows named without a year-month; a sheet without the
\* JobFamily column named without a year-month.
InputOccupancies ==
    {<<workbook(Some(1),
                Some(occupancy_csv(<<occupancy_row(<<1, 1>>, 1, Some(Corporate), 1),
                                     occupancy_row(<<1, 2>>, 1 + Padded, NA, 3),
                                     occupancy_row(<<1, 3>>, 1 + 2 * Padded, Some(Pending), 3),
                                     occupancy_row(<<1, 4>>, 1, Some(DevelopmentAmpConstruction),
                                                   4)>>)))>>,
     <<workbook(NA, Some(occupancy_csv(<<>>)))>>,
     <<workbook(NA, Some([columns |-> OccupancyColumns \ {"JobFamily"},
                          rows |-> <<occupancy_row(<<1, 1>>, 1, Some(Corporate), 1)>>]))>>}

\* and the empty working directory
FreshScenarios ==
    {[dd |-> NA, dl |-> NA, db |-> NA, occupancy |-> NA, raw |-> NA, raw_occupancy |-> NA,
      inputs |-> Some([Deskcount |-> d, Occupancy |-> o]),
      converted |-> NA] :
        d \in InputDeskcounts, o \in InputOccupancies}
    \cup {[dd |-> NA, dl |-> NA, db |-> NA, occupancy |-> NA, raw |-> NA,
            raw_occupancy |-> NA, inputs |-> NA, converted |-> NA]}

Scenarios ==
    AttendanceScenarios \cup CapacityScenarios \cup NoLocationScenarios
    \cup IncludeScenarios \cup UpstreamScenarios \cup FreshScenarios

\* the stages taken one at a time: no orchestrator is running
NoArgs == [cmd |-> "none", from_stage |-> 1, to_stage |-> 9, only |-> NA, skip |-> {},
           dry_run |-> FALSE, no_publish |-> FALSE, table |-> ""]

\* nothing is written yet
NotBuilt == [clean |-> NA, lob |-> NA, agg |-> NA]

Init ==
    /\ \E sc \in Scenarios :
          /\ Inputs = sc.inputs
          /\ converted_data = sc.converted
          /\ Deskcount_csv = sc.raw
          /\ Occupancy_csv = sc.raw_occupancy
          /\ Occupancy_cleaned = sc.occupancy
          /\ DimDate = sc.dd
          /\ DimLocation = sc.dl
          /\ DimLineOfBusiness = sc.db
    /\ Deskcount_cleaned = NA
    /\ variant = "none"
    /\ pc = "idle"
    /\ dim_date = <<>>
    /\ occupancy_data = <<>>
    /\ deskcount_data = <<>>
    /\ fact_table = <<>>
    /\ FactOccupancy = NA
    /\ FactOccupancyAggregated = NA
    /\ built_from = NotBuilt
    /\ raised = "none"
    /\ args = NoArgs
    /\ disk = {}
    /\ plan = <<>>
    /\ position = 1
    /\ checked = <<>>
    /\ executed = <<>>
    /\ validate_called = FALSE
    /\ publish_called = FALSE
    /\ publish_raised = FALSE
    /\ rc = NA
    /\ run_pc = "off"

(***************************************************************************)
(* The steps.  A stage starts when no other stage is running; the stages   *)
(* are started in any order and any number of times.                       *)
(***************************************************************************)
\* a stage ends with an exception before it has written anything
StageRaisesAtOnce(exception) ==
    /\ pc' = "raised"
    /\ raised' = exception
    /\ UNCHANGED <<orchestrator, inputs, Deskcount_cleaned, variant, frames, files,
                   built_from>>

\* stage 1, convert_xlsx_to_csv: every workbook that can be read and dated
\* is written to the directory of its type; SystemExit(1) after the loop
\* when a workbook failed or a type has no workbook.  Without the directory
\* Inputs iterdir() raises FileNotFoundError after the output directories
\* were made.  Without openpyxl the stage ends with SystemExit before it
\* writes.
ConvertXlsxToCsv ==
    /\ pc = "idle"
    /\ \/ /\ notna(Inputs)
          /\ LET dirs == mkdir(converted_data)
                 desk == convert_type("Deskcount", Val(Inputs).Deskcount, dirs.Deskcount)
                 occ == convert_type("Occupancy", Val(Inputs).Occupancy, dirs.Occupancy)
             IN /\ converted_data' = Some([Deskcount |-> desk.dir, Occupancy |-> occ.dir])
                /\ IF desk.failures \/ occ.failures
                   THEN pc' = "raised" /\ raised' = "SystemExit"
                   ELSE UNCHANGED <<pc, raised>>
       \/ /\ isna(Inputs)
          /\ converted_data' = Some(mkdir(converted_data))
          /\ pc' = "raised"
          /\ raised' = "FileNotFoundError"
       \/ /\ UNCHANGED converted_data
          /\ pc' = "raised"
          /\ raised' = "SystemExit"
    /\ UNCHANGED <<orchestrator, Inputs, Deskcount_csv, Occupancy_csv, Occupancy_cleaned,
                   Deskcount_cleaned, DimLocation, DimLineOfBusiness, DimDate, variant, frames,
                   files, built_from>>

\* stage 2, combine_csv_files.  The directories of converted_data are taken
\* in the order of iterdir(); a directory without CSV files ends the stage
\* with SystemExit(1) after the files of the directories before it were
\* written; without converted_data iterdir() raises FileNotFoundError.  The
\* stage reads and writes under COS_OUTPUT_DIR, or beside the script: when
\* that is not the working directory the files here stay.
CombineCsvFiles ==
    /\ pc = "idle"
    /\ \/ /\ notna(converted_data)
          /\ \E first \in {"Deskcount", "Occupancy"} :
             LET dirs == Val(converted_data)
                 second == IF first = "Deskcount" THEN "Occupancy" ELSE "Deskcount"
                 done_first == csv_files(dirs[first]) # <<>>
                 done_second == done_first /\ csv_files(dirs[second]) # <<>>
                 done(t) == IF t = first THEN done_first ELSE done_second
             IN /\ Deskcount_csv' =
                      IF done("Deskcount")
                      THEN combined(csv_files(dirs["Deskcount"]), Deskcount_csv)
                      ELSE Deskcount_csv
                /\ Occupancy_csv' =
                      IF done("Occupancy")
                      THEN combined(csv_files(dirs["Occupancy"]), Occupancy_csv)
                      ELSE Occupancy_csv
                /\ IF done_second
                   THEN UNCHANGED <<pc, raised>>
                   ELSE pc' = "raised" /\ raised' = "SystemExit"
       \/ /\ isna(converted_data)
          /\ UNCHANGED <<Deskcount_csv, Occupancy_csv>>
          /\ pc' = "raised"
          /\ raised' = "FileNotFoundError"
       \/ /\ UNCHANGED <<Deskcount_csv, Occupancy_csv>>
          /\ \/ UNCHANGED <<pc, raised>>
             \/ pc' = "raised" /\ raised' \in {"SystemExit", "FileNotFoundError"}
    /\ UNCHANGED <<orchestrator, Inputs, converted_data, Occupancy_cleaned,
                   Deskcount_cleaned, DimLocation, DimLineOfBusiness, DimDate, variant, frames,
                   files, built_from>>

\* stage 3, clean_occupancy_data: writes cleaned_data/Occupancy_cleaned.csv
CleanOccupancy ==
    /\ pc = "idle"
    /\ notna(Occupancy_csv)
    /\ clean_occupancy_columns \subseteq raw_occupancy.columns
    /\ Occupancy_cleaned' = Some(clean_occupancy_data(raw_occupancy))
    /\ UNCHANGED <<orchestrator, Inputs, converted_data, Deskcount_csv, Occupancy_csv,
                   Deskcount_cleaned, DimLocation, DimLineOfBusiness, DimDate, variant, pc, frames,
                   files, built_from, raised>>

\* stage 3 without combined_data/Occupancy.csv (FileNotFoundError) or
\* without one of its columns (KeyError)
CleanOccupancyRaises ==
    /\ pc = "idle"
    /\ \/ isna(Occupancy_csv) /\ StageRaisesAtOnce("FileNotFoundError")
       \/ /\ notna(Occupancy_csv)
          /\ ~(clean_occupancy_columns \subseteq raw_occupancy.columns)
          /\ StageRaisesAtOnce("KeyError")

\* stage 4, clean_deskcount_data: writes cleaned_data/Deskcount_cleaned.csv
CleanDeskcount ==
    /\ pc = "idle"
    /\ notna(Deskcount_csv)
    /\ clean_deskcount_columns \subseteq raw_deskcount.columns
    /\ Deskcount_cleaned' = Some(clean_deskcount_data(raw_deskcount))
    /\ built_from' = [built_from EXCEPT !.clean = Deskcount_csv]
    /\ UNCHANGED <<orchestrator, inputs, variant, pc, frames, files, raised>>

\* stage 4 without combined_data/Deskcount.csv (FileNotFoundError) or
\* without one of its columns (KeyError)
CleanDeskcountRaises ==
    /\ pc = "idle"
    /\ \/ isna(Deskcount_csv) /\ StageRaisesAtOnce("FileNotFoundError")
       \/ /\ notna(Deskcount_csv)
          /\ ~(clean_deskcount_columns \subseteq raw_deskcount.columns)
          /\ StageRaisesAtOnce("KeyError")

\* stage 5, create_dim_date: writes dimensions/DimDate.csv; it reads no file
CreateDimDate ==
    /\ pc = "idle"
    /\ DimDate' = Some(create_dim_date)
    /\ UNCHANGED <<orchestrator, Inputs, converted_data, Deskcount_csv, Occupancy_csv,
                   Occupancy_cleaned, Deskcount_cleaned, DimLocation, DimLineOfBusiness,
                   variant, pc, frames, files, built_from, raised>>

\* stage 6, create_dim_location: writes dimensions/DimLocation.csv
CreateDimLocation ==
    /\ pc = "idle"
    /\ notna(Occupancy_cleaned)
    /\ notna(Deskcount_csv)
    /\ create_dim_location_columns \subseteq raw_deskcount.columns
    /\ DimLocation' = Some(create_dim_location(occupancy, raw_deskcount))
    /\ UNCHANGED <<orchestrator, Inputs, converted_data, Deskcount_csv, Occupancy_csv,
                   Occupancy_cleaned, Deskcount_cleaned, DimLineOfBusiness, DimDate, variant, pc,
                   frames, files, built_from, raised>>

\* stage 6 without one of the two files it reads (FileNotFoundError) or
\* without the OfficeLocation, RSF or Date column (KeyError)
CreateDimLocationRaises ==
    /\ pc = "idle"
    /\ \/ /\ isna(Occupancy_cleaned) \/ isna(Deskcount_csv)
          /\ StageRaisesAtOnce("FileNotFoundError")
       \/ /\ notna(Occupancy_cleaned)
          /\ notna(Deskcount_csv)
          /\ ~(create_dim_location_columns \subseteq raw_deskcount.columns)
          /\ StageRaisesAtOnce("KeyError")

\* stage 7, create_dim_line_of_business: writes
\* dimensions/DimLineOfBusiness.csv
CreateDimLineOfBusiness ==
    /\ pc = "idle"
    /\ notna(Occupancy_cleaned)
    /\ DimLineOfBusiness' = Some(create_dim_line_of_business(occupancy))
    /\ UNCHANGED <<orchestrator, Inputs, converted_data, Deskcount_csv, Occupancy_csv,
                   Occupancy_cleaned, Deskcount_cleaned, DimLocation, DimDate, variant, pc, frames,
                   files, built_from, raised>>

\* stage 7 without cleaned_data/Occupancy_cleaned.csv
CreateDimLineOfBusinessRaises ==
    /\ pc = "idle"
    /\ isna(Occupancy_cleaned)
    /\ StageRaisesAtOnce("FileNotFoundError")

\* the files a fact builder reads, as they are now
read_by(v) ==
    IF v = "lob"
    THEN <<DimDate, DimLocation, DimLineOfBusiness, Occupancy_cleaned, Deskcount_cleaned>>
    ELSE <<DimDate, DimLocation, Occupancy_cleaned, Deskcount_cleaned>>

\* every file the builder reads is there
loads(v) == \A i \in 1..Len(read_by(v)) : notna(read_by(v)[i])

\* the local frames of a fact builder after loading and scoping
scoped_occupancy(v) ==
    IF v = "lob"
    THEN scope_occupancy(occupancy, latest_desk_date(Val(Deskcount_cleaned)))
    ELSE scope_occupancy(occupancy, coverage_end(occupancy, Val(Deskcount_cleaned)))

scoped_dim_date(v) ==
    IF v = "lob"
    THEN scope_dim_date_lob(Val(DimDate), Val(Deskcount_cleaned))
    ELSE scope_dim_date_agg(Val(DimDate), occupancy, Val(Deskcount_cleaned))

\* step 1: the complete matrix of the scoped dates
matrix(v) ==
    IF v = "lob"
    THEN date_loc_lob(scoped_dim_date(v), dim_location, dim_lob)
    ELSE date_loc(scoped_dim_date(v), dim_location)

\* stage 8 (create_fact_occupancy) or stage 9
\* (create_fact_occupancy_aggregated) up to the as-of join: the builder
\* loads its inputs, limits them to its date window, builds the complete
\* matrix (step 1) and fills in the attendance (steps 2 and 3)
LoadAndFill ==
    /\ pc = "idle"
    /\ \E v \in {"lob", "agg"} :
          /\ loads(v)
          /\ LET scoped == scoped_occupancy(v)
             IN /\ variant' = v
                /\ deskcount_data' = Val(Deskcount_cleaned)
                /\ occupancy_data' = scoped
                /\ dim_date' = scoped_dim_date(v)
                /\ fact_table' = IF v = "lob"
                                 THEN fill_lob(matrix(v), scoped)
                                 ELSE fill_agg(matrix(v), scoped)
    /\ pc' = "asof"
    /\ UNCHANGED <<orchestrator, inputs, Deskcount_cleaned, files, built_from, raised>>

\* stage 8 or 9 without one of the files it reads: pd.read_csv raises
\* FileNotFoundError
LoadRaises ==
    /\ pc = "idle"
    /\ \E v \in {"lob", "agg"} : ~loads(v)
    /\ StageRaisesAtOnce("FileNotFoundError")

sorted_left == IF variant = "lob" THEN sort_for_asof_lob(fact_table)
               ELSE sort_for_asof_agg(fact_table)
sorted_right == IF variant = "lob" THEN sort_for_asof_lob(deskcount_data)
                ELSE sort_for_asof_agg(deskcount_data)

\* the builder ends with an exception: its file stays as it was
BuilderRaises(exception) ==
    /\ raised' = exception
    /\ variant' = "none"
    /\ pc' = "raised"
    /\ dim_date' = <<>>
    /\ occupancy_data' = <<>>
    /\ deskcount_data' = <<>>
    /\ fact_table' = <<>>
    /\ UNCHANGED <<orchestrator, inputs, Deskcount_cleaned, files, built_from>>

\* step 4, the as-of join, and step 5, the occupancy rate
MergeAsof ==
    /\ pc = "asof"
    /\ merge_asof_accepts(sorted_left, sorted_right)
    /\ fact_table' = add_occupancy_rate(merge_asof(sorted_left, sorted_right))
    /\ deskcount_data' = sorted_right
    /\ pc' = "hybrid"
    /\ UNCHANGED <<orchestrator, inputs, Deskcount_cleaned, variant, dim_date, occupancy_data,
                   files, built_from, raised>>

\* step 4 when pd.merge_asof raises ValueError
MergeAsofRaises ==
    /\ pc = "asof"
    /\ ~merge_asof_accepts(sorted_left, sorted_right)
    /\ BuilderRaises("ValueError")

\* os.getenv('HYBRID_DEBUG_W27', '').lower(): the values of the model
Environments == {"", "0", "1", "true", "yes"}

\* if os.getenv('HYBRID_DEBUG_W27', '').lower() in ('1','true','yes')
hybrid_debug(env) == env \in {"1", "true", "yes"}

\* step 6 with HYBRID_DEBUG_W27 not set, step 7 and to_csv: the fact file is
\* written
HybridFlags ==
    /\ pc = "hybrid"
    /\ {env \in Environments : ~hybrid_debug(env)} # {}
    /\ LET flagged == IF variant = "lob"
                      THEN calculate_hybrid_day_flags_lob(fact_table)
                      ELSE calculate_hybrid_day_flags_agg(fact_table)
       IN IF variant = "lob"
          THEN /\ FactOccupancy' = Some(final_table(flagged))
               /\ UNCHANGED FactOccupancyAggregated
          ELSE /\ FactOccupancyAggregated' = Some(final_table(flagged))
               /\ UNCHANGED FactOccupancy
    /\ built_from' = [built_from EXCEPT ![variant] = Some(read_by(variant))]
    /\ variant' = "none"
    /\ pc' = "idle"
    /\ dim_date' = <<>>
    /\ occupancy_data' = <<>>
    /\ deskcount_data' = <<>>
    /\ fact_table' = <<>>
    /\ UNCHANGED <<orchestrator, inputs, Deskcount_cleaned, raised>>

\* step 6 with HYBRID_DEBUG_W27 set: the debug branch reads
\* fact_table['week_start'] after the column was dropped, a KeyError
HybridFlagsRaises ==
    /\ pc = "hybrid"
    /\ {env \in Environments : hybrid_debug(env)} # {}
    /\ BuilderRaises("KeyError")

\* the process of a stage that raised has ended: the next stage can start
StageExits ==
    /\ pc = "raised"
    /\ pc' = "idle"
    /\ raised' = "none"
    /\ UNCHANGED <<orchestrator, inputs, Deskcount_cleaned, variant, frames, files,
                   built_from>>

Next ==
    \/ ConvertXlsxToCsv
    \/ CombineCsvFiles
    \/ CleanOccupancy
    \/ CleanOccupancyRaises
    \/ CleanDeskcount
    \/ CleanDeskcountRaises
    \/ CreateDimDate
    \/ CreateDimLocation
    \/ CreateDimLocationRaises
    \/ CreateDimLineOfBusiness
    \/ CreateDimLineOfBusinessRaises
    \/ LoadAndFill
    \/ LoadRaises
    \/ MergeAsof
    \/ MergeAsofRaises
    \/ HybridFlags
    \/ HybridFlagsRaises
    \/ StageExits

Spec == Init /\ [][Next]_vars

(***************************************************************************)
(* The cleaner of the desk counts and the fact builders as functions of    *)
(* the files they read: stage 4 on any combined_data/Deskcount.csv, stages *)
(* 8 and 9 on any cleaned_data/Deskcount_cleaned.csv, whatever wrote the   *)
(* file.  Every stage can run on these working directories, in any order.  *)
(***************************************************************************)
RECURSIVE DistinctSeqsUpTo(_, _)
\* the sequences of up to n different elements of S, the empty one included
DistinctSeqsUpTo(S, n) ==
    IF n = 0 THEN {<<>>}
    ELSE LET shorter == DistinctSeqsUpTo(S, n - 1)
         IN shorter \cup UNION {{Append(q, x) : x \in S \ Range(q)} : q \in shorter}

\* rows of combined_data/Deskcount.csv: location 1 with a positive desk
\* count on 2024-01-02, a larger and a negative one on 2024-01-04, 0 and no
\* desk count on 2024-01-06; location 2 with a positive desk count on
\* 2024-01-02 and 0 on 2024-01-04; location 1 written with a blank and a
\* full stop, with 0 on 2024-01-04
CleanerSnapshots ==
    {snapshot(1, 1, Some(1)), snapshot(1, 3, Some(MaxDesk)), snapshot(1, 3, Some(0 - 1)),
     snapshot(1, 5, Some(0)), snapshot(1, 5, NA),
     snapshot(2, 1, Some(MaxDesk)), snapshot(2, 3, Some(0)),
     snapshot(1 + 2 * Padded, 3, Some(0))}

\* combined_data/Deskcount.csv: up to MaxSnap + 2 different rows in any
\* order; with the include column; without the Deskcount column
CleanerInputs ==
    {deskcount_csv(raw) : raw \in DistinctSeqsUpTo(CleanerSnapshots, MaxSnap + 2) \ {<<>>}}
    \cup {[columns |-> DeskcountColumns,
           rows |-> <<included_snapshot(1, 1, Some(MaxDesk), cell),
                      included_snapshot(1, 3, Some(0), Some("Yes")),
                      included_snapshot(2, 3, Some(1), Some(" yes "))>>] :
             cell \in IncludeCells}
    \cup {[columns |-> DeskcountColumns \ {"Deskcount"},
           rows |-> <<snapshot(1, 1, NA)>>]}

\* the working directories of stage 4: Inputs is not there, converted_data
\* holds its two directories without a file, and the builders find no events
CleanerScenarios ==
    {[dd |-> Some(create_dim_date), dl |-> Some(<<1>>), db |-> Some(<<1, 2>>),
      occupancy |-> NA, raw |-> Some(raw), raw_occupancy |-> NA, inputs |-> NA,
      converted |-> Some(mkdir(NA)), cleaned |-> NA] : raw \in CleanerInputs}

\* cleaned_data/Deskcount_cleaned.csv with any desk count on 2024-01-02 and
\* on 2024-01-04
cleaned_row(l, d, c) == [office_location |-> l, date |-> d, deskcount |-> c]
BuilderInputs ==
    {<<cleaned_row(1, 1, c), cleaned_row(1, 3, later)>> :
        c \in RawDeskcounts, later \in RawDeskcounts}

\* events of location 1 on 2024-01-02 and 2024-01-04, of location 2 on
\* 2024-01-03
builder_events ==
    {[date |-> 1, loc |-> 1, lob |-> 1, n |-> MaxAtt],
     [date |-> 2, loc |-> 2, lob |-> 1, n |-> 1],
     [date |-> 3, loc |-> 1, lob |-> 1, n |-> 1],
     [date |-> 3, loc |-> 1, lob |-> 2, n |-> 1]}

\* the working directories of stages 8 and 9: the files of one run of
\* stages 1 to 3 and 5 to 7, DimLocation.csv with one or two locations, and
\* any cleaned desk counts
with_cleaned(sc, desk) ==
    [dd |-> sc.dd, dl |-> sc.dl, db |-> sc.db, occupancy |-> sc.occupancy, raw |-> sc.raw,
     raw_occupancy |-> sc.raw_occupancy, inputs |-> sc.inputs, converted |-> sc.converted,
     cleaned |-> Some(desk)]

BuilderScenarios ==
    {with_cleaned(one_run(dl, <<1, 2>>, builder_events,
                          deskcount_csv(<<snapshot(1, 3, Some(0)),
                                          snapshot(1, 1, Some(1))>>)), desk) :
        dl \in {<<1>>, <<1, 2>>}, desk \in BuilderInputs}

StageScenarios == CleanerScenarios \cup BuilderScenarios

InitStage ==
    /\ \E sc \in StageScenarios :
          /\ Inputs = sc.inputs
          /\ converted_data = sc.converted
          /\ Deskcount_csv = sc.raw
          /\ Occupancy_csv = sc.raw_occupancy
          /\ Deskcount_cleaned = sc.cleaned
          /\ Occupancy_cleaned = sc.occupancy
          /\ DimDate = sc.dd
          /\ DimLocation = sc.dl
          /\ DimLineOfBusiness = sc.db
    /\ variant = "none"
    /\ pc = "idle"
    /\ dim_date = <<>>
    /\ occupancy_data = <<>>
    /\ deskcount_data = <<>>
    /\ fact_table = <<>>
    /\ FactOccupancy = NA
    /\ FactOccupancyAggregated = NA
    /\ built_from = NotBuilt
    /\ raised = "none"
    /\ args = NoArgs
    /\ disk = {}
    /\ plan = <<>>
    /\ position = 1
    /\ checked = <<>>
    /\ executed = <<>>
    /\ validate_called = FALSE
    /\ publish_called = FALSE
    /\ publish_raised = FALSE
    /\ rc = NA
    /\ run_pc = "off"

SpecStage == InitStage /\ [][Next]_vars

(***************************************************************************)
(* src/validation_report.py: the figures of the report that the properties *)
(* speak about.                                                            *)
(***************************************************************************)
\* mask_merge_issue = (fact['attendance_count'] > 0) & (fact['deskcount'] == 0);
\* a comparison with a missing capacity is False
mask_merge_issue(row) ==
    row.attendance_count > 0 /\ notna(row.deskcount) /\ Val(row.deskcount) = 0

\* int(mask_merge_issue.sum())
n_merge_issue(fact) == Len(SelectSeq(fact, mask_merge_issue))

(***************************************************************************)
(* The orchestrator: run_pipeline.main and the commands of main.py.  Here  *)
(* a stage is its effect on the working directory: the datasets it reads   *)
(* and the datasets it writes.  "converted_data/<type>" stands for a       *)
(* directory of that name with at least one CSV file, "Inputs" for the     *)
(* Excel files of both types.                                              *)
(***************************************************************************)
\* bounds of the command lines
MaxOnly == 2

\* define_stages: the stages in the order of the list
define_stages == <<1, 2, 3, 4, 5, 6, 7, 8, 9>>
stage_map == Range(define_stages)

\* the files a stage function reads
reads(num) ==
    CASE num = 1 -> {"Inputs"}
      [] num = 2 -> {"converted_data/Deskcount", "converted_data/Occupancy"}
      [] num = 3 -> {"combined_data/Occupancy.csv"}
      [] num = 4 -> {"combined_data/Deskcount.csv"}
      [] num = 5 -> {}
      [] num = 6 -> {"cleaned_data/Occupancy_cleaned.csv", "combined_data/Deskcount.csv"}
      [] num = 7 -> {"cleaned_data/Occupancy_cleaned.csv"}
      [] num = 8 -> {"dimensions/DimDate.csv", "dimensions/DimLocation.csv",
                     "dimensions/DimLineOfBusiness.csv",
                     "cleaned_data/Occupancy_cleaned.csv",
                     "cleaned_data/Deskcount_cleaned.csv"}
      [] num = 9 -> {"dimensions/DimDate.csv", "dimensions/DimLocation.csv",
                     "cleaned_data/Occupancy_cleaned.csv",
                     "cleaned_data/Deskcount_cleaned.csv"}

\* the files a stage function writes when nothing stops it
writes(num) ==
    CASE num = 1 -> {"converted_data/Deskcount", "converted_data/Occupancy"}
      [] num = 2 -> {"combined_data/Occupancy.csv", "combined_data/Deskcount.csv"}
      [] num = 3 -> {"cleaned_data/Occupancy_cleaned.csv"}
      [] num = 4 -> {"cleaned_data/Deskcount_cleaned.csv"}
      [] num = 5 -> {"dimensions/DimDate.csv"}
      [] num = 6 -> {"dimensions/DimLocation.csv"}
      [] num = 7 -> {"dimensions/DimLineOfBusiness.csv"}
      [] num = 8 -> {"facts/FactOccupancy.csv"}
      [] num = 9 -> {"facts/FactOccupancyAggregated.csv"}

\* what a stage function that returns has written in the working directory.
\* combine_csv_files writes the combined file of a type only when one of its
\* CSV files could be read, and it writes under COS_OUTPUT_DIR or beside the
\* script, which need not be the working directory
written_on_return(num) ==
    IF num = 2 THEN SUBSET writes(num) ELSE {writes(num)}

\* what a stage function that raises has written before.
\* convert_xlsx_to_csv raises after its loop when a file failed, the others
\* being converted; combine_csv_files raises at a directory without CSV
\* files after the directories before it
written_on_raise(num) ==
    IF num \in {1, 2} THEN SUBSET writes(num) ELSE {{}}

\* a faulty variant: every prerequisite check returns ok
stage_checks_always_ok(num, files_present) == TRUE

\* stage_checks: the files the prerequisite check of a stage looks for
required(num) ==
    CASE num = 1 -> {"Inputs"}
      [] num = 2 -> {"converted_data/Deskcount", "converted_data/Occupancy"}
      [] num = 3 -> {"combined_data/Occupancy.csv"}
      [] num = 4 -> {"combined_data/Deskcount.csv"}
      [] num = 5 -> {}
      [] num = 6 -> {"cleaned_data/Occupancy_cleaned.csv"}
      [] num = 7 -> {"cleaned_data/Occupancy_cleaned.csv"}
      [] num = 8 -> {"dimensions/DimDate.csv", "dimensions/DimLocation.csv",
                     "dimensions/DimLineOfBusiness.csv",
                     "cleaned_data/Occupancy_cleaned.csv",
                     "cleaned_data/Deskcount_cleaned.csv"}
      [] num = 9 -> {"dimensions/DimDate.csv", "dimensions/DimLocation.csv",
                     "cleaned_data/Occupancy_cleaned.csv",
                     "cleaned_data/Deskcount_cleaned.csv"}
stage_checks(num, files_present) == required(num) \subseteq files_present

\* the files validation_report.validate loads
validate_reads ==
    {"facts/FactOccupancy.csv", "facts/FactOccupancyAggregated.csv",
     "dimensions/DimDate.csv", "dimensions/DimLocation.csv",
     "cleaned_data/Occupancy_cleaned.csv", "cleaned_data/Deskcount_cleaned.csv"}

\* the plan of run_pipeline.main: --only as given, stages that exist kept;
\* otherwise the stages from --from to --to without those of --skip
select_plan(a) ==
    IF notna(a.only)
    THEN SelectSeq(Val(a.only), LAMBDA s : s \in stage_map)
    ELSE SelectSeq(SelectSeq(define_stages,
                             LAMBDA num : a.from_stage <= num /\ num <= a.to_stage),
                   LAMBDA num : num \notin a.skip)

\* main.py: the subcommands that main looks for in argv before it parses
known_cmds == {"run", "validate", "all"}

\* main.py with a known token in argv parses the command line; the publish
\* command is reached only then (a --table named like a subcommand)
parses(a) == a.cmd \in known_cmds \/ a.table \in known_cmds

\* the arguments run_pipeline.main receives: its own command line, the
\* options of run and all, and [] when argv holds no known subcommand
pipeline_args(a) ==
    IF a.cmd = "run_pipeline" \/ a.cmd \in known_cmds
    THEN a
    ELSE [a EXCEPT !.from_stage = 1, !.to_stage = 9, !.only = NA, !.skip = {},
                   !.dry_run = FALSE]

\* a faulty variant: run publishes whenever --no-publish is absent
run_publishes_unless_no_publish(a) == ~a.no_publish

\* main.py run: "Publish if not a dry-run and user didn't opt out"
run_publishes(a) == ~a.dry_run /\ ~a.no_publish

\* main.py all: "After validation, publish unless disabled"
all_publishes(a) == ~a.no_publish

\* the command lines and the working directories the runs start from
Commands == {"run_pipeline", "run", "all"}
\* the commands that run no stage: main.py validate and the scripts
\* validation_report.py and publish_to_delta.py
ReportCommands == {"validate", "validation_report"}
DefaultTable == "dev.jb_off_occ.fact_occupancy_aggregated"
PublishTables == {DefaultTable, "all"}
FromStages == {1, 2, 5}
ToStages == {3, 9}
OnlyNumbers == {0, 5, 9}
SkipNumbers == {5, 9}
OnlyLists == UNION {[1..n -> OnlyNumbers] : n \in 1..MaxOnly}
CommandLines ==
    {a \in [cmd : Commands, from_stage : FromStages, to_stage : ToStages,
            only : {NA} \cup {Some(o) : o \in OnlyLists}, skip : SUBSET SkipNumbers,
            dry_run : BOOLEAN, no_publish : BOOLEAN, table : {DefaultTable}] :
        a.cmd = "run_pipeline" => ~a.no_publish}
    \cup [cmd : {"publish"}, from_stage : {1}, to_stage : {9}, only : {NA}, skip : {{}},
          dry_run : BOOLEAN, no_publish : {FALSE}, table : PublishTables]
    \cup [cmd : ReportCommands \cup {"publish_to_delta"}, from_stage : {1}, to_stage : {9},
          only : {NA}, skip : {{}}, dry_run : {FALSE}, no_publish : {FALSE},
          table : {DefaultTable}]
Upstream == {"Inputs", "converted_data/Deskcount", "converted_data/Occupancy",
             "combined_data/Occupancy.csv",
             "combined_data/Deskcount.csv", "cleaned_data/Occupancy_cleaned.csv",
             "cleaned_data/Deskcount_cleaned.csv"}
WorkingDirectories ==
    {{}, {"Inputs"}, {"Inputs", "converted_data/Deskcount"},
     {"Inputs", "converted_data/Deskcount", "converted_data/Occupancy"}, Upstream,
     {"cleaned_data/Occupancy_cleaned.csv", "cleaned_data/Deskcount_cleaned.csv"},
     Upstream \cup {"dimensions/DimDate.csv", "dimensions/DimLocation.csv",
                    "dimensions/DimLineOfBusiness.csv"},
     validate_reads}

InitRun ==
    /\ args \in CommandLines
    /\ disk \in WorkingDirectories
    /\ plan = <<>>
    /\ position = 1
    /\ checked = <<>>
    /\ executed = <<>>
    /\ validate_called = FALSE
    /\ publish_called = FALSE
    /\ publish_raised = FALSE
    /\ rc = NA
    /\ run_pc = "start"
    /\ Inputs = NA
    /\ converted_data = NA
    /\ Deskcount_csv = NA
    /\ Occupancy_csv = NA
    /\ Occupancy_cleaned = NA
    /\ DimDate = NA
    /\ DimLocation = NA
    /\ DimLineOfBusiness = NA
    /\ Deskcount_cleaned = NA
    /\ variant = "none"
    /\ pc = "off"
    /\ dim_date = <<>>
    /\ occupancy_data = <<>>
    /\ deskcount_data = <<>>
    /\ fact_table = <<>>
    /\ FactOccupancy = NA
    /\ FactOccupancyAggregated = NA
    /\ built_from = NotBuilt
    /\ raised = "none"

\* run_pipeline.main returns code: to the shell, or to main.py
Return(code) ==
    /\ rc' = Some(code)
    /\ run_pc' = IF args.cmd = "run_pipeline" THEN "returned" ELSE "main"

\* run_pipeline.main up to the loop: the plan, the empty plan, --dry-run
SelectStages ==
    /\ run_pc = "start"
    /\ \/ args.cmd \in Commands
       \/ (args.cmd = "publish" /\ ~parses(args))
    /\ plan' = select_plan(pipeline_args(args))
    /\ IF plan' = <<>> \/ pipeline_args(args).dry_run
       THEN Return(0)
       ELSE rc' = rc /\ run_pc' = "loop"
    /\ UNCHANGED <<builder, args, disk, position, checked, executed,
                   validate_called, publish_called, publish_raised>>

\* one turn of the loop: the check of the stage fails, main returns 2
PrerequisiteFails ==
    /\ run_pc = "loop"
    /\ position <= Len(plan)
    /\ ~stage_checks(plan[position], disk)
    /\ checked' = Append(checked, plan[position])
    /\ Return(2)
    /\ UNCHANGED <<builder, args, disk, plan, position, executed,
                   validate_called, publish_called, publish_raised>>

\* one turn of the loop: the check passes, the stage function returns
StageCompletes ==
    /\ run_pc = "loop"
    /\ position <= Len(plan)
    /\ stage_checks(plan[position], disk)
    /\ reads(plan[position]) \subseteq disk
    /\ checked' = Append(checked, plan[position])
    /\ executed' = Append(executed, plan[position])
    /\ \E files_written \in written_on_return(plan[position]) :
          disk' = disk \cup files_written
    /\ position' = position + 1
    /\ UNCHANGED <<builder, args, plan, validate_called, publish_called,
                   publish_raised, rc, run_pc>>

\* one turn of the loop: the check passes, the stage function raises (a file
\* it reads is missing, or its content stops it) and the exception leaves main
StageRaises ==
    /\ run_pc = "loop"
    /\ position <= Len(plan)
    /\ stage_checks(plan[position], disk)
    /\ reads(plan[position]) # {}
    /\ checked' = Append(checked, plan[position])
    /\ executed' = Append(executed, plan[position])
    /\ \E files_written \in written_on_raise(plan[position]) :
          disk' = disk \cup files_written
    /\ run_pc' = "raised"
    /\ UNCHANGED <<builder, args, plan, position, validate_called,
                   publish_called, publish_raised, rc>>

\* the loop is over: "Pipeline complete."
PipelineComplete ==
    /\ run_pc = "loop"
    /\ position > Len(plan)
    /\ Return(0)
    /\ UNCHANGED <<builder, args, disk, plan, position, checked, executed,
                   validate_called, publish_called, publish_raised>>

\* main.py run and all: run_pipeline.main returned a code other than 0
MainReturnsRc ==
    /\ run_pc = "main"
    /\ Val(rc) # 0
    /\ run_pc' = "returned"
    /\ UNCHANGED <<builder, args, disk, plan, position, checked, executed,
                   validate_called, publish_called, publish_raised, rc>>

\* main.py run: publish unless --dry-run or --no-publish
MainRun ==
    /\ run_pc = "main"
    /\ args.cmd = "run"
    /\ Val(rc) = 0
    /\ publish_called' = run_publishes(args)
    /\ publish_raised' \in (IF publish_called' THEN BOOLEAN ELSE {FALSE})
    /\ rc' = Some(0)
    /\ run_pc' = "returned"
    /\ UNCHANGED <<builder, args, disk, plan, position, checked, executed,
                   validate_called>>

\* main.py all without --dry-run: the code of validate is returned
MainAllValidates ==
    /\ run_pc = "main"
    /\ args.cmd = "all"
    /\ Val(rc) = 0
    /\ ~args.dry_run
    /\ validate_reads \subseteq disk
    /\ validate_called' = TRUE
    /\ rc' = Some(0)
    /\ run_pc' = "returned"
    /\ UNCHANGED <<builder, args, disk, plan, position, checked, executed,
                   publish_called, publish_raised>>

\* main.py all without --dry-run: validate raises
MainAllValidateRaises ==
    /\ run_pc = "main"
    /\ args.cmd = "all"
    /\ Val(rc) = 0
    /\ ~args.dry_run
    /\ validate_called' = TRUE
    /\ run_pc' = "raised"
    /\ UNCHANGED <<builder, args, disk, plan, position, checked, executed,
                   publish_called, publish_raised, rc>>

\* main.py all with --dry-run: validation is passed over, then publish
\* unless --no-publish
MainAllDryRun ==
    /\ run_pc = "main"
    /\ args.cmd = "all"
    /\ Val(rc) = 0
    /\ args.dry_run
    /\ publish_called' = all_publishes(args)
    /\ publish_raised' \in (IF publish_called' THEN BOOLEAN ELSE {FALSE})
    /\ rc' = Some(0)
    /\ run_pc' = "returned"
    /\ UNCHANGED <<builder, args, disk, plan, position, checked, executed,
                   validate_called>>

\* main.py without a known subcommand in argv (publish is none): after the
\* whole pipeline returned 0 the code of validate is returned
MainDefaultValidates ==
    /\ run_pc = "main"
    /\ args.cmd = "publish"
    /\ Val(rc) = 0
    /\ validate_reads \subseteq disk
    /\ validate_called' = TRUE
    /\ rc' = Some(0)
    /\ run_pc' = "returned"
    /\ UNCHANGED <<builder, args, disk, plan, position, checked, executed,
                   publish_called, publish_raised>>

\* main.py without a known subcommand in argv: validate raises
MainDefaultValidateRaises ==
    /\ run_pc = "main"
    /\ args.cmd = "publish"
    /\ Val(rc) = 0
    /\ validate_called' = TRUE
    /\ run_pc' = "raised"
    /\ UNCHANGED <<builder, args, disk, plan, position, checked, executed,
                   publish_called, publish_raised, rc>>

\* main.py validate, and validation_report.main: validate is called and its
\* code returned; no stage runs
MainValidate ==
    /\ run_pc = "start"
    /\ args.cmd \in ReportCommands
    /\ validate_reads \subseteq disk
    /\ validate_called' = TRUE
    /\ rc' = Some(0)
    /\ run_pc' = "returned"
    /\ UNCHANGED <<builder, args, disk, plan, position, checked, executed,
                   publish_called, publish_raised>>

\* main.py validate, and validation_report.main: validate raises
MainValidateRaises ==
    /\ run_pc = "start"
    /\ args.cmd \in ReportCommands
    /\ validate_called' = TRUE
    /\ run_pc' = "raised"
    /\ UNCHANGED <<builder, args, disk, plan, position, checked, executed,
                   publish_called, publish_raised, rc>>

\* main.py publish, parsed, and publish_to_delta.main: the publish is called
\* and 0 returned; an exception of the publish is not caught here
MainPublish ==
    /\ run_pc = "start"
    /\ \/ args.cmd = "publish" /\ parses(args)
       \/ args.cmd = "publish_to_delta"
    /\ publish_called' = TRUE
    /\ \/ publish_raised' = FALSE /\ rc' = Some(0) /\ run_pc' = "returned"
       \/ publish_raised' = TRUE /\ rc' = rc /\ run_pc' = "raised"
    /\ UNCHANGED <<builder, args, disk, plan, position, checked, executed,
                   validate_called>>

NextRun ==
    \/ SelectStages
    \/ PrerequisiteFails
    \/ StageCompletes
    \/ StageRaises
    \/ PipelineComplete
    \/ MainReturnsRc
    \/ MainRun
    \/ MainAllValidates
    \/ MainAllValidateRaises
    \/ MainAllDryRun
    \/ MainDefaultValidates
    \/ MainDefaultValidateRaises
    \/ MainValidate
    \/ MainValidateRaises
    \/ MainPublish

SpecRun == InitRun /\ [][NextRun]_vars

(***************************************************************************)
(* What the properties speak about: the written facts and the inputs.      *)
(***************************************************************************)
Variants == {"lob", "agg"}
Fact(v) == IF v = "lob" THEN FactOccupancy ELSE FactOccupancyAggregated

\* the cleaned snapshots are those of the present combined_data/Deskcount.csv
cleaned_now ==
    /\ notna(Deskcount_cleaned)
    /\ notna(Deskcount_csv)
    /\ built_from.clean = Deskcount_csv

\* fact v is written, from the files that are there now
written(v) ==
    /\ notna(Fact(v))
    /\ loads(v)
    /\ built_from[v] = Some(read_by(v))
    /\ cleaned_now
rows_of(v) == Val(Fact(v))

\* fact v is built from the files that are there now, whatever wrote them
built(v) ==
    /\ notna(Fact(v))
    /\ loads(v)
    /\ built_from[v] = Some(read_by(v))

\* the cleaned snapshots are the capacity input of the fact builders
cleaned == Val(Deskcount_cleaned)

\* the raw snapshots: the rows of combined_data/Deskcount.csv that take part
\* in the occupancy calculation (every row when the file has no include
\* column, else the rows marked yes), the location normalised as the
\* cleaner does
Included(row) ==
    include_col(raw_deskcount) =>
        (notna(row.include) /\ Val(row.include) \in {"Yes", " yes "})
raw_snapshots ==
    LET kept == SelectSeq(raw_deskcount.rows, Included)
    IN frame([i \in 1..Len(kept) |->
                [kept[i] EXCEPT !.office_location = normalize_location(@)]])
snapshot_dates == {raw_snapshots[i].date : i \in 1..Len(raw_snapshots)}
event_dates == {k[1] : k \in {x \in DOMAIN occupancy : occupancy[x] > 0}}

\* the date horizon of each fact: the per-LOB fact runs from the first date
\* of the Date dimension to the latest snapshot date, the aggregated fact
\* from the first event to the last event, capped at the end of the month of
\* the latest snapshot
Horizon(v) ==
    LET events == event_dates
        snapshots == snapshot_dates
    IN IF v = "lob"
       THEN {d \in Days : \E t \in snapshots : d <= t}
       ELSE {d \in Days : /\ \E e \in events : e <= d
                          /\ \E e \in events : d <= e
                          /\ \E t \in snapshots : d <= MonthEnd0(t)}

\* the line-of-business values of the rows of a fact
LobsOf(v) == IF v = "lob" THEN Range(dim_lob) ELSE {0}

\* the cleaned events of one <<logon_date, office_location, line_of_business>>
EventCount(k) == IF k \in DOMAIN occupancy THEN occupancy[k] ELSE 0

\* the cleaned events of one fact key
EventsAt(v, d, l, b) ==
    IF v = "lob" THEN EventCount(<<d, l, b>>)
    ELSE SumOver([x \in Lobs |-> EventCount(<<d, l, x>>)], Lobs)

(***************************************************************************)
(* C1  Grid completeness, as claimed: a written fact holds exactly one row  *)
(* for every (date of the horizon, location of the Location dimension[,    *)
(* line of business of the LOB dimension]) and no other row.  It fails     *)
(* where DimLocation.csv holds a location twice (two spellings of it in    *)
(* Deskcount.csv): the cross merge gives every key of that location two    *)
(* rows.                                                                   *)
(***************************************************************************)
C1_GridComplete ==
    \A v \in Variants :
        written(v) =>
            LET rows == rows_of(v)
                keys == {<<rows[i].date, rows[i].office_location,
                           rows[i].line_of_business>> : i \in 1..Len(rows)}
            IN \* every key of the grid has a row, and no row has another key
               /\ keys = Horizon(v) \X Range(dim_location) \X LobsOf(v)
               \* no two rows share a key
               /\ Len(rows) = Cardinality(keys)
               /\ \A i \in 1..Len(rows) :
                    rows[i].date_key = date_key_of(rows[i].date)

(***************************************************************************)
(* C2  Attendance zero-fill: attendance_count of every fact row is the     *)
(* number of cleaned events of the row's key, a natural number, 0 when     *)
(* the key has no event.                                                   *)
(***************************************************************************)
C2_AttendanceCounted ==
    \A v \in Variants :
        written(v) =>
            \* a key of the grid has a row, with or without events
            /\ \A k \in Horizon(v) \X Range(dim_location) \X LobsOf(v) :
                  \E i \in 1..Len(rows_of(v)) :
                     <<rows_of(v)[i].date, rows_of(v)[i].office_location,
                       rows_of(v)[i].line_of_business>> = k
            /\ \A i \in 1..Len(rows_of(v)) :
                  LET r == rows_of(v)[i]
                  IN /\ r.attendance_count \in Nat
                     /\ r.attendance_count =
                          EventsAt(v, r.date, r.office_location, r.line_of_business)

\* the aggregated fact counts two events of one date that belong to two
\* lines of business, the per-LOB fact counts them apart, and both have
\* zero-filled rows
C2_Witness ==
    /\ written("lob") /\ written("agg")
    /\ \E i \in 1..Len(rows_of("agg")) :
          /\ rows_of("agg")[i].attendance_count = 2
          /\ \E j \in 1..Len(rows_of("lob")) :
                /\ rows_of("lob")[j].date = rows_of("agg")[i].date
                /\ rows_of("lob")[j].attendance_count = 1
    /\ \E i \in 1..Len(rows_of("agg")) : rows_of("agg")[i].attendance_count = 0
    /\ \E j \in 1..Len(rows_of("lob")) : rows_of("lob")[j].attendance_count = 0

(***************************************************************************)
(* C3  As-of monotonicity: a fact row carries a capacity of the latest     *)
(* cleaned snapshot date of its location at or before its own date, and    *)
(* null capacity when its location has no snapshot at or before it.        *)
(***************************************************************************)
\* the snapshot dates of location l at or before date d
DatesUpTo(l, d) ==
    {cleaned[j].date : j \in {k \in 1..Len(cleaned) :
        cleaned[k].office_location = l /\ cleaned[k].date <= d}}

\* the capacities the cleaned snapshots give location l on date t
CapacitiesOn(l, t) ==
    {cleaned[j].deskcount : j \in {k \in 1..Len(cleaned) :
        cleaned[k].office_location = l /\ cleaned[k].date = t}}

C3_AsOfMonotone ==
    \A v \in Variants :
        written(v) =>
            \A i \in 1..Len(rows_of(v)) :
                LET r == rows_of(v)[i]
                    before == DatesUpTo(r.office_location, r.date)
                IN IF before = {}
                   THEN isna(r.deskcount)
                   ELSE r.deskcount \in CapacitiesOn(r.office_location, SetMax(before))

\* a location with two snapshot dates t1 < t2 of different capacities, and
\* fact rows before t1 (null), in [t1, t2) (the t1 capacity) and from t2 on
\* (the t2 capacity)
C3_Witness ==
    /\ written("lob") /\ written("agg")
    /\ \E l \in Range(dim_location), t1, t2 \in snapshot_dates :
          /\ t1 < t2
          /\ \E c1 \in CapacitiesOn(l, t1), c2 \in CapacitiesOn(l, t2) :
                /\ notna(c1) /\ notna(c2) /\ c1 # c2
                /\ CapacitiesOn(l, t1) = {c1}
                /\ CapacitiesOn(l, t2) = {c2}
                /\ \A v \in Variants :
                      LET rows == rows_of(v)
                      IN /\ \E i \in 1..Len(rows) :
                               /\ rows[i].office_location = l
                               /\ rows[i].date < t1
                               /\ isna(rows[i].deskcount)
                         /\ \E i \in 1..Len(rows) :
                               /\ rows[i].office_location = l
                               /\ rows[i].date > t1 /\ rows[i].date < t2
                               /\ rows[i].deskcount = c1
                         /\ \E i \in 1..Len(rows) :
                               /\ rows[i].office_location = l
                               /\ rows[i].date >= t2
                               /\ rows[i].deskcount = c2

(***************************************************************************)
(* C4  Occupancy null policy: in every row of a fact, of either variant,   *)
(* occupancy_rate is null exactly when the capacity is null or <= 0;       *)
(* otherwise it is attendance_count / capacity (rate x capacity =          *)
(* attendance_count), 0 for a row without attendance and above 1 for a row *)
(* with more attendance than capacity.                                     *)
(***************************************************************************)
C4_OccupancyNullPolicy ==
    \A v \in Variants :
        built(v) =>
            \A i \in 1..Len(rows_of(v)) :
                LET r == rows_of(v)[i]
                IN /\ isna(r.occupancy_rate) <=>
                        (isna(r.deskcount) \/ Val(r.deskcount) <= 0)
                   /\ notna(r.occupancy_rate) =>
                        /\ Val(r.occupancy_rate)[2] > 0
                        /\ Val(r.occupancy_rate)[1] * Val(r.deskcount) =
                              r.attendance_count * Val(r.occupancy_rate)[2]
                        /\ (r.attendance_count = 0 <=> Val(r.occupancy_rate)[1] = 0)
                        /\ (r.attendance_count > Val(r.deskcount) <=>
                              Val(r.occupancy_rate)[1] > Val(r.occupancy_rate)[2])

\* a row of capacity c, 0 or negative, with a null rate
NonPositiveCapacityRow(rows, c) ==
    \E i \in 1..Len(rows) :
        /\ rows[i].deskcount = Some(c)
        /\ rows[i].attendance_count > 0
        /\ isna(rows[i].occupancy_rate)

\* both facts are built on a cleaned file with the capacity 0; each has a
\* row of capacity 0 with attendance and a null rate, a rate 0 of a row
\* without attendance and a rate above 1; the per-LOB fact has a row without
\* capacity too
C4_Witness ==
    /\ built("lob")
    /\ built("agg")
    /\ \E i \in 1..Len(rows_of("lob")) :
          /\ isna(rows_of("lob")[i].deskcount)
          /\ isna(rows_of("lob")[i].occupancy_rate)
    /\ \A v \in Variants :
          LET rows == rows_of(v)
          IN /\ NonPositiveCapacityRow(rows, 0)
             /\ \E i \in 1..Len(rows) :
                   /\ notna(rows[i].occupancy_rate)
                   /\ rows[i].attendance_count = 0
                   /\ Val(rows[i].occupancy_rate) = <<0, 1>>
             /\ \E i \in 1..Len(rows) :
                   /\ notna(rows[i].occupancy_rate)
                   /\ rows[i].attendance_count > Val(rows[i].deskcount)
                   /\ Val(rows[i].occupancy_rate)[1] > Val(rows[i].occupancy_rate)[2]

(***************************************************************************)
(* Hybrid days of the written facts.                                       *)
(***************************************************************************)
GridDates(v) == {rows_of(v)[i].date : i \in 1..Len(rows_of(v))}

\* the Monday-Friday dates of the ISO week of d that lie in the month of d
MonthWeekdays(d) ==
    {week_start(d) + k : k \in {j \in 0..4 :
        month_of(week_start(d) + j) = month_of(d)}}

\* the eligibility rule on the calendar: Monday-Friday, and the month of the
\* date contributes at least 3 weekdays to the date's ISO week
CalendarEligible(d) ==
    dayofweek(d) < 5 /\ Cardinality(MonthWeekdays(d)) >= 3

\* the same rule counting only the weekdays that are dates of the fact
EligibleInFact(v, d) ==
    dayofweek(d) < 5 /\ Cardinality(MonthWeekdays(d) \cap GridDates(v)) >= 3

\* the eligible dates of the fact in the ISO week that starts on w
EligibleDates(v, w) ==
    {d \in GridDates(v) : week_start(d) = w /\ EligibleInFact(v, d)}

\* the dates of location l flagged in the week that starts on w
Flagged(v, l, w) ==
    {rows_of(v)[i].date : i \in {k \in 1..Len(rows_of(v)) :
        /\ rows_of(v)[k].office_location = l
        /\ week_start(rows_of(v)[k].date) = w
        /\ rows_of(v)[k].is_hybrid_day}}

WeeksOf(v) == {week_start(d) : d \in GridDates(v)}

\* the events of location l on date d, over all lines of business
DailyTotal(l, d) == SumOver([b \in Lobs |-> EventCount(<<d, l, b>>)], Lobs)

\* date a ranks before date b: more attendance, or as much and earlier
RanksBefore(l, a, b) ==
    \/ DailyTotal(l, a) > DailyTotal(l, b)
    \/ (DailyTotal(l, a) = DailyTotal(l, b) /\ a < b)

\* the first three of a set of candidate dates in that order
TopThree(l, cands) ==
    {d \in cands : Cardinality({e \in cands : RanksBefore(l, e, d)}) < 3}

(***************************************************************************)
(* C5  Hybrid-day cardinality, as claimed for both facts: every (location, *)
(* ISO week) has exactly 3 flagged dates when the week has at least 3      *)
(* eligible dates and exactly k when it has k < 3, whatever the            *)
(* attendance.  Eligibility is taken over the dates of the fact, the       *)
(* reading under which the aggregated fact satisfies the claim.  The       *)
(* per-LOB fact violates it: it flags no date without attendance.          *)
(***************************************************************************)
CardinalityHolds(v) ==
    \A l \in Range(dim_location), w \in WeeksOf(v) :
        Cardinality(Flagged(v, l, w)) =
            IF Cardinality(EligibleDates(v, w)) >= 3
            THEN 3 ELSE Cardinality(EligibleDates(v, w))

C5_HybridCardinality ==
    \A v \in Variants : written(v) => CardinalityHolds(v)

\* C5 for the aggregated fact alone
C5_AggregatedCardinality ==
    written("agg") => CardinalityHolds("agg")

(***************************************************************************)
(* C6  Hybrid-day selection, as claimed for both facts: the flagged dates  *)
(* of a (location, ISO week) are the first 3 eligible dates by daily total *)
(* attendance descending, then date ascending, dates without attendance    *)
(* included.  The per-LOB fact violates it.                                *)
(***************************************************************************)
SelectionHolds(v) ==
    \A l \in Range(dim_location), w \in WeeksOf(v) :
        Flagged(v, l, w) = TopThree(l, EligibleDates(v, w))

C6_HybridSelection ==
    \A v \in Variants : written(v) => SelectionHolds(v)

\* C6 for the aggregated fact alone
C6_AggregatedSelection ==
    written("agg") => SelectionHolds("agg")

(***************************************************************************)
(* C7  Hybrid-day eligibility guard: no row of a written fact is flagged   *)
(* on a Saturday or Sunday, or on a weekday whose month contributes fewer  *)
(* than 3 weekdays to its ISO week.                                        *)
(***************************************************************************)
C7_EligibilityGuard ==
    \A v \in Variants :
        written(v) =>
            \A i \in 1..Len(rows_of(v)) :
                rows_of(v)[i].is_hybrid_day => CalendarEligible(rows_of(v)[i].date)

\* both facts have a week in which a weekday of the minority month has the
\* largest attendance of the week and is not flagged, while other dates of
\* the week are
C7_Witness ==
    /\ written("lob") /\ written("agg")
    /\ \E l \in Range(dim_location), d \in GridDates("lob") \cap GridDates("agg") :
          /\ dayofweek(d) < 5
          /\ ~CalendarEligible(d)
          /\ \A e \in GridDates("lob") :
                (week_start(e) = week_start(d) /\ e # d) =>
                    DailyTotal(l, e) < DailyTotal(l, d)
          /\ \A v \in Variants :
                /\ d \notin Flagged(v, l, week_start(d))
                /\ Flagged(v, l, week_start(d)) # {}

(***************************************************************************)
(* C8  Eligibility predicate, as claimed: a date of the grid is eligible   *)
(* exactly when it is eligible on the calendar, whatever the other dates   *)
(* of the horizon are.  Stated on the frame that                           *)
(* calculate_hybrid_day_flags receives.                                    *)
(***************************************************************************)
C8_EligibilityByCalendar ==
    pc = "hybrid" =>
        \A d \in date_df(fact_table) :
            eligible_date(date_df(fact_table), d) <=> CalendarEligible(d)

(***************************************************************************)
(* C9  In the per-LOB fact the ranking uses the attendance summed over all *)
(* lines of business: a flagged date never ranks behind an unflagged       *)
(* eligible date of the same location and week by (daily total             *)
(* descending, date ascending); and every line-of-business row of one      *)
(* (date, location) has the same flag.                                     *)
(***************************************************************************)
C9_CrossLobRanking ==
    written("lob") =>
        LET rows == rows_of("lob")
        IN \* no (date, location) has rows of both flags
           /\ Cardinality({<<rows[i].date, rows[i].office_location,
                             rows[i].is_hybrid_day>> : i \in 1..Len(rows)})
                = Cardinality({<<rows[i].date, rows[i].office_location>> :
                                  i \in 1..Len(rows)})
           /\ \A l \in Range(dim_location), w \in WeeksOf("lob") :
                 \A d \in Flagged("lob", l, w) :
                    \A e \in EligibleDates("lob", w) \ Flagged("lob", l, w) :
                        RanksBefore(l, d, e)

\* a week of the per-LOB fact in which an unflagged date has attendance, is
\* earlier than a flagged date and has as many events as it in one line of
\* business, but fewer over all lines of business
C9_Witness ==
    /\ written("lob")
    /\ \E l \in Range(dim_location), w \in WeeksOf("lob") :
          \E d \in Flagged("lob", l, w) :
             \E e \in EligibleDates("lob", w) \ Flagged("lob", l, w) :
                /\ e < d
                /\ DailyTotal(l, e) > 0
                /\ DailyTotal(l, e) < DailyTotal(l, d)
                /\ \E b \in Lobs : EventCount(<<e, l, b>>) >= EventCount(<<d, l, b>>)
                /\ \A b \in Lobs : EventCount(<<d, l, b>>) <= DailyTotal(l, e)

(***************************************************************************)
(* C10  Same-date snapshots: a fact row resolved to a snapshot date        *)
(* carries the capacity of the snapshot of its location and that date      *)
(* that comes last in the cleaned snapshot input.                          *)
(***************************************************************************)
\* the last row of the cleaned snapshots of location l dated t
LastOn(l, t) ==
    cleaned[SetMax({k \in 1..Len(cleaned) :
        cleaned[k].office_location = l /\ cleaned[k].date = t})]

C10_LastSnapshotOfDate ==
    \A v \in Variants :
        written(v) =>
            \A i \in 1..Len(rows_of(v)) :
                LET r == rows_of(v)[i]
                    before == DatesUpTo(r.office_location, r.date)
                IN before # {} =>
                      r.deskcount = LastOn(r.office_location, SetMax(before)).deskcount

\* a location has two snapshots of one date with different capacities, and
\* rows of both facts are resolved to that date
C10_Witness ==
    /\ written("lob") /\ written("agg")
    /\ \E l \in Range(dim_location), t \in snapshot_dates :
          /\ Cardinality(CapacitiesOn(l, t)) = 2
          /\ \A c \in CapacitiesOn(l, t) : notna(c)
          /\ \A v \in Variants :
                \E i \in 1..Len(rows_of(v)) :
                    /\ rows_of(v)[i].office_location = l
                    /\ rows_of(v)[i].date >= t
                    /\ SetMax(DatesUpTo(l, rows_of(v)[i].date)) = t
                    /\ rows_of(v)[i].deskcount = LastOn(l, t).deskcount

(***************************************************************************)
(* The two facts of one run compared.                                      *)
(***************************************************************************)
\* the <<date, office_location>> keys of the rows of a fact
KeysOf(v) ==
    {<<rows_of(v)[i].date, rows_of(v)[i].office_location>> : i \in 1..Len(rows_of(v))}

\* the <<date, office_location, is_hybrid_day>> of the rows of a fact
FlagsOf(v) ==
    {<<rows_of(v)[i].date, rows_of(v)[i].office_location, rows_of(v)[i].is_hybrid_day>> :
        i \in 1..Len(rows_of(v))}

(***************************************************************************)
(* C11  Hybrid flags agree across the two facts, as claimed: for every     *)
(* (date, location) that both facts of one run hold, is_hybrid_day of the  *)
(* aggregated row equals is_hybrid_day of the per-LOB rows.  The two       *)
(* builders select differently (the per-LOB one drops the dates without    *)
(* attendance), so the facts disagree.                                     *)
(***************************************************************************)
C11_HybridFlagsAgree ==
    (written("lob") /\ written("agg")) =>
        \A t \in FlagsOf("lob") :
            <<t[1], t[2]>> \in KeysOf("agg") => t \in FlagsOf("agg")

(***************************************************************************)
(* C12  Attendance agrees across the two facts, as claimed: for every      *)
(* (date, location) that both facts of one run hold, attendance_count of   *)
(* an aggregated row is the sum of attendance_count over the per-LOB rows  *)
(* of that (date, location).  It fails where DimLocation.csv holds the     *)
(* location twice: the per-LOB fact holds every row of it twice and the    *)
(* sum is twice the count of an aggregated row.                            *)
(***************************************************************************)
\* the numbers of the rows of a fact with one (date, location)
RowsAt(v, d, l) ==
    {i \in 1..Len(rows_of(v)) :
        rows_of(v)[i].date = d /\ rows_of(v)[i].office_location = l}

\* attendance_count summed over the rows of a fact with one (date, location)
AttendanceAt(v, d, l) ==
    SumOver([i \in RowsAt(v, d, l) |-> rows_of(v)[i].attendance_count], RowsAt(v, d, l))

C12_AttendanceAgrees ==
    (written("lob") /\ written("agg")) =>
        \A k \in KeysOf("lob") \cap KeysOf("agg") :
            \A i \in RowsAt("agg", k[1], k[2]) :
                rows_of("agg")[i].attendance_count = AttendanceAt("lob", k[1], k[2])

(***************************************************************************)
(* C13  Capacity normalisation by the cleaner: per location and in date    *)
(* order (snapshots of one date in input order), the capacity of every     *)
(* cleaned snapshot is the most recent strictly positive raw capacity at   *)
(* or before it, null when there is none; no cleaned capacity is 0 or      *)
(* negative.                                                               *)
(***************************************************************************)
\* the numbers of the raw snapshots of location l
RawOf(l) == {a \in 1..Len(raw_snapshots) : raw_snapshots[a].office_location = l}

\* raw snapshot b comes at or before raw snapshot a in date order
AtOrBefore(b, a) ==
    \/ raw_snapshots[b].date < raw_snapshots[a].date
    \/ (raw_snapshots[b].date = raw_snapshots[a].date /\ b <= a)

\* the raw snapshot of location l that is the k-th in date order
RawAt(l, k) ==
    CHOOSE a \in RawOf(l) : Cardinality({b \in RawOf(l) : AtOrBefore(b, a)}) = k

StrictlyPositive(c) == notna(c) /\ Val(c) > 0

\* the capacity the rule gives the k-th snapshot of location l
CarriedForward(l, k) ==
    LET known == {j \in 1..k : StrictlyPositive(raw_snapshots[RawAt(l, j)].deskcount)}
    IN IF known = {} THEN NA ELSE raw_snapshots[RawAt(l, SetMax(known))].deskcount

\* the cleaned snapshots of location l, in the order of the cleaned table
CleanedOf(l) == SelectSeq(cleaned, LAMBDA r : r.office_location = l)

\* the locations of the raw snapshots, as the cleaner names them
SnapshotLocations == {raw_snapshots[a].office_location : a \in 1..Len(raw_snapshots)}

C13_CapacityNormalised ==
    cleaned_now =>
        /\ Len(cleaned) = Len(raw_snapshots)
        /\ \A i \in 1..Len(cleaned) :
              /\ cleaned[i].office_location \in SnapshotLocations
              /\ isna(cleaned[i].deskcount) \/ Val(cleaned[i].deskcount) > 0
        /\ \A l \in SnapshotLocations :
              /\ Len(CleanedOf(l)) = Cardinality(RawOf(l))
              /\ \A k \in 1..Len(CleanedOf(l)) :
                    /\ CleanedOf(l)[k].date = raw_snapshots[RawAt(l, k)].date
                    /\ CleanedOf(l)[k].deskcount = CarriedForward(l, k)

\* the raw input is not in date order; a location has three snapshots, two
\* different positive capacities and then 0: the third cleaned capacity is
\* the second raw one.  The location that follows it in the cleaned table
\* has 0 as its only raw capacity, and its cleaned capacity is null.
C13_Witness ==
    /\ cleaned_now
    /\ \E l \in SnapshotLocations :
          /\ Len(CleanedOf(l)) = 3
          /\ RawAt(l, 1) > RawAt(l, 3)
          /\ raw_snapshots[RawAt(l, 1)].date < raw_snapshots[RawAt(l, 2)].date
          /\ raw_snapshots[RawAt(l, 2)].date < raw_snapshots[RawAt(l, 3)].date
          /\ StrictlyPositive(raw_snapshots[RawAt(l, 1)].deskcount)
          /\ StrictlyPositive(raw_snapshots[RawAt(l, 2)].deskcount)
          /\ raw_snapshots[RawAt(l, 1)].deskcount # raw_snapshots[RawAt(l, 2)].deskcount
          /\ raw_snapshots[RawAt(l, 3)].deskcount = Some(0)
          /\ CleanedOf(l)[3].deskcount = raw_snapshots[RawAt(l, 2)].deskcount
          /\ cleaned[3].office_location = l
          /\ Len(cleaned) = 4
          /\ cleaned[4].office_location \notin Locations
          /\ raw_snapshots[RawAt(cleaned[4].office_location, 1)].deskcount = Some(0)
          /\ isna(cleaned[4].deskcount)

(***************************************************************************)
(* C14  EmptyDimension, as claimed: a fact file is written only when the   *)
(* dates of the horizon, the Location dimension and (per-LOB fact) the LOB *)
(* dimension each have at least one row.  The builders have no such test:  *)
(* an empty matrix passes through every step and is written as an empty    *)
(* table.                                                                  *)
(***************************************************************************)
C14_EmptyDimensionFails ==
    \A v \in Variants :
        written(v) =>
            /\ Horizon(v) # {}
            /\ dim_location # <<>>
            /\ (v = "lob" => dim_lob # <<>>)

(***************************************************************************)
(* C16  Per-location independence: with the date horizon and the           *)
(* dimensions fixed, the rows of a location in a written fact are what the *)
(* builder computes from the events and the snapshots of that location     *)
(* alone; the events and snapshots of the other locations have no effect   *)
(* on its capacity, occupancy_rate and is_hybrid_day.  The dimensions are  *)
(* fixed: the location computed apart has the rows that DimLocation.csv    *)
(* holds for it.                                                           *)
(***************************************************************************)
\* the rows of the Location dimension, the events and the snapshots of one
\* location
DimensionOfLocation(dl, l) == SelectSeq(dl, LAMBDA x : x = l)
EventsOfLocation(occ, l) == [k \in {x \in DOMAIN occ : x[2] = l} |-> occ[k]]
SnapshotsOfLocation(desk, l) == SelectSeq(desk, LAMBDA r : r.office_location = l)

\* steps 1 to 7 of a builder on given dates, locations, events and snapshots
BuildLob(dd, dl, occ, desk) ==
    final_table(calculate_hybrid_day_flags_lob(add_occupancy_rate(
        merge_asof(sort_for_asof_lob(fill_lob(date_loc_lob(dd, dl, dim_lob), occ)),
                   sort_for_asof_lob(desk)))))
BuildAgg(dd, dl, occ, desk) ==
    final_table(calculate_hybrid_day_flags_agg(add_occupancy_rate(
        merge_asof(sort_for_asof_agg(fill_agg(date_loc(dd, dl), occ)),
                   sort_for_asof_agg(desk)))))

\* the fact of location l computed apart, on the horizon of the whole run
FactOfLocationAlone(v, l) ==
    IF v = "lob"
    THEN BuildLob(scope_dim_date_lob(Val(DimDate), cleaned),
                  DimensionOfLocation(dim_location, l),
                  EventsOfLocation(scope_occupancy(occupancy, latest_desk_date(cleaned)), l),
                  SnapshotsOfLocation(cleaned, l))
    ELSE BuildAgg(scope_dim_date_agg(Val(DimDate), occupancy, cleaned),
                  DimensionOfLocation(dim_location, l),
                  EventsOfLocation(scope_occupancy(occupancy,
                                                   coverage_end(occupancy, cleaned)), l),
                  SnapshotsOfLocation(cleaned, l))

\* The facts are compared between the stages, when no builder is running: a
\* fact is written by the last step of its builder and by no other step.
C16_LocationIndependence ==
    \A v \in Variants :
        (written(v) /\ pc = "idle") =>
            \A l \in Range(dim_location) :
                SelectSeq(rows_of(v), LAMBDA r : r.office_location = l)
                    = FactOfLocationAlone(v, l)

\* both facts are written with two locations: the rows of the per-LOB fact
\* differ on one date in attendance, in capacity and in the rate; the rows of
\* the aggregated fact differ on one date in attendance, in capacity and in
\* the hybrid flag
C16_Witness ==
    /\ written("lob")
    /\ written("agg")
    /\ pc = "idle"
    /\ Len(dim_location) = 2
    /\ \E i, j \in 1..Len(rows_of("lob")) :
          LET a == rows_of("lob")[i]
              b == rows_of("lob")[j]
          IN /\ a.date = b.date
             /\ a.office_location # b.office_location
             /\ a.attendance_count > b.attendance_count
             /\ b.attendance_count > 0
             /\ notna(a.deskcount) /\ notna(b.deskcount)
             /\ a.deskcount # b.deskcount
             /\ notna(a.occupancy_rate) /\ notna(b.occupancy_rate)
             /\ a.occupancy_rate # b.occupancy_rate
    /\ \E i, j \in 1..Len(rows_of("agg")) :
          LET a == rows_of("agg")[i]
              b == rows_of("agg")[j]
          IN /\ a.date = b.date
             /\ a.office_location # b.office_location
             /\ a.attendance_count # b.attendance_count
             /\ notna(a.deskcount) /\ a.deskcount # b.deskcount
             /\ a.is_hybrid_day /\ ~b.is_hybrid_day
    /\ \E i \in 1..Len(rows_of("agg")) :
          rows_of("agg")[i].office_location = 2 /\ rows_of("agg")[i].is_hybrid_day

(***************************************************************************)
(* C17  Output order, as claimed: the rows of a written fact are in        *)
(* strictly ascending order of (date_key, office_location,                 *)
(* line_of_business), the aggregated fact of (date_key, office_location);  *)
(* the keys are unique, so the order is total.  It fails where             *)
(* DimLocation.csv holds a location twice: two consecutive rows have one   *)
(* key.                                                                    *)
(***************************************************************************)
OrderKey(r) == <<r.date_key, r.office_location, r.line_of_business>>

C17_OutputOrder ==
    \A v \in Variants :
        written(v) =>
            \A i \in 1..(Len(rows_of(v)) - 1) :
                LexLess(OrderKey(rows_of(v)[i]), OrderKey(rows_of(v)[i + 1]))

\* what holds of the output order with a location held twice: the keys never
\* descend, and two rows of one key are the same row
OutputOrderWeak ==
    \A v \in Variants :
        written(v) =>
            \A i \in 1..(Len(rows_of(v)) - 1) :
                \/ LexLess(OrderKey(rows_of(v)[i]), OrderKey(rows_of(v)[i + 1]))
                \/ rows_of(v)[i] = rows_of(v)[i + 1]

(***************************************************************************)
(* C15  MissingInput fail-fast: a run of the orchestrator that stops on    *)
(* the missing prerequisite of a planned stage (return code 2) stops       *)
(* before any planned stage has executed, so no stage output is written in *)
(* that run.                                                               *)
(***************************************************************************)
C15_MissingInputFailFast ==
    rc = Some(2) => executed = <<>>

(***************************************************************************)
(* C18  Stage ordering: for every combination of --from, --to, --only and  *)
(* --skip the stages are executed in strictly increasing stage number,     *)
(* each at most once.                                                      *)
(***************************************************************************)
C18_StageOrdering ==
    \A i \in 1..(Len(executed) - 1) : executed[i] < executed[i + 1]

(***************************************************************************)
(* C19  --skip: a stage number listed in --skip is never executed in that  *)
(* run, whatever --from, --to and --only are.                              *)
(***************************************************************************)
C19_SkipNeverExecuted ==
    \A i \in 1..Len(executed) : executed[i] \notin args.skip

(***************************************************************************)
(* C20  --dry-run: with --dry-run, run_pipeline.main and the run and all   *)
(* commands of main.py execute no stage function, no prerequisite check,   *)
(* no validation and no publish, and return 0.                             *)
(***************************************************************************)
C20_DryRunNoEffect ==
    (args.cmd \in {"run_pipeline", "run", "all"} /\ args.dry_run) =>
        /\ executed = <<>>
        /\ checked = <<>>
        /\ ~validate_called
        /\ ~publish_called
        /\ (run_pc = "returned" => rc = Some(0))

(***************************************************************************)
(* C21  The all command without --dry-run: when the pipeline returned 0    *)
(* and validation ran, the publish to Delta is attempted after it unless   *)
(* --no-publish was given.                                                 *)
(***************************************************************************)
C21_AllValidatesThenPublishes ==
    (/\ args.cmd = "all"
     /\ ~args.dry_run
     /\ run_pc = "returned"
     /\ rc = Some(0)
     /\ validate_called)
        => (publish_called <=> ~args.no_publish)

(***************************************************************************)
(* C22  The publish command executes no pipeline stage and no validation;  *)
(* when it returns it has called the Delta publish and its code is 0.      *)
(***************************************************************************)
C22_PublishOnly ==
    args.cmd = "publish" =>
        /\ executed = <<>>
        /\ ~validate_called
        /\ (run_pc = "returned" => (publish_called /\ rc = Some(0)))

(***************************************************************************)
(* C23  The run command attempts the publish exactly when the pipeline     *)
(* returned 0 and neither --dry-run nor --no-publish is set; a pipeline    *)
(* code other than 0 is returned as it is, without a publish; an exception *)
(* of the publish leaves the exit code 0.                                  *)
(***************************************************************************)
\* the code run_pipeline.main returned: 2 after a failed check, 0 otherwise
PipelineRc == IF Len(checked) > Len(executed) THEN 2 ELSE 0

C23_RunPublishes ==
    (args.cmd = "run" /\ run_pc = "returned") =>
        /\ publish_called <=> (PipelineRc = 0 /\ ~args.dry_run /\ ~args.no_publish)
        /\ rc = Some(PipelineRc)
        /\ (publish_raised => rc = Some(0))

\* a run command that executed stages, called the publish, and the publish
\* raised
C23_Witness ==
    /\ args.cmd = "run"
    /\ run_pc = "returned"
    /\ executed # <<>>
    /\ publish_called
    /\ publish_raised

(***************************************************************************)
(* C24  Prerequisite gating: a stage function is executed only after its   *)
(* own prerequisite check returned ok in the same run; when the check of a *)
(* planned stage fails, run_pipeline.main returns 2 and neither that stage *)
(* nor any later stage of the plan is executed.                            *)
(***************************************************************************)
C24_PrerequisiteGating ==
    /\ Len(executed) <= Len(checked)
    /\ Len(checked) <= Len(executed) + 1
    /\ \A i \in 1..Len(checked) : checked[i] = plan[i]
    /\ \A i \in 1..Len(executed) :
          /\ executed[i] = checked[i]
          /\ required(executed[i]) \subseteq disk
    /\ Len(checked) > Len(executed) =>
          /\ ~(required(checked[Len(checked)]) \subseteq disk)
          /\ rc = Some(2)
          /\ run_pc \in {"main", "returned"}
    /\ rc = Some(2) => Len(checked) > Len(executed)

\* a run that executed a stage, then stopped on the failed check of the next
\* one, with a stage of the plan left after it
C24_Witness ==
    /\ rc = Some(2)
    /\ executed # <<>>
    /\ Len(plan) > Len(checked)

(***************************************************************************)
(* C30  Prerequisite checks are sufficient: every stage that passed its    *)
(* check and was executed had every file that its function reads.          *)
(***************************************************************************)
C30_ChecksSufficient ==
    \A i \in 1..Len(executed) : reads(executed[i]) \subseteq disk

(***************************************************************************)
(* C25  As-of join precondition: in both fact builders the grid rows and   *)
(* the snapshot rows handed to the backward as-of join are each in         *)
(* non-decreasing date order over the whole table, so the join runs        *)
(* instead of raising.                                                     *)
(***************************************************************************)
C25_AsofInputsSorted ==
    /\ pc = "asof" =>
          /\ is_monotonic_increasing(sorted_left)
          /\ is_monotonic_increasing(sorted_right)
    /\ raised # "ValueError"

(***************************************************************************)
(* C26  Same horizon in both variants: the per-LOB fact and the aggregated *)
(* fact of one run hold exactly the same set of (date, location) keys, so  *)
(* the same first date and the same last date.                             *)
(***************************************************************************)
C26_SameHorizon ==
    (written("lob") /\ written("agg")) => KeysOf("lob") = KeysOf("agg")

(***************************************************************************)
(* C27  End to end, cleaner then fact builder: the capacity of every row   *)
(* of a written fact is null or strictly positive, whatever the raw        *)
(* snapshots are, and the validation report counts 0 rows with attendance  *)
(* above 0 and a capacity of 0.                                            *)
(***************************************************************************)
C27_FactCapacityPositive ==
    \A v \in Variants :
        written(v) =>
            /\ \A i \in 1..Len(rows_of(v)) :
                  StrictlyPositive(rows_of(v)[i].deskcount) \/ isna(rows_of(v)[i].deskcount)
            /\ n_merge_issue(rows_of(v)) = 0

\* the raw snapshots at or before date d of location l
RawUpTo(l, d) ==
    {k \in 1..Len(raw_snapshots) :
        raw_snapshots[k].office_location = l /\ raw_snapshots[k].date <= d}

\* both facts have a row with attendance whose capacity is null although
\* its location has raw snapshots at or before the row's date: one of
\* capacity 0 and one of a negative capacity, and none above 0
C27_Witness ==
    \A v \in Variants :
        /\ written(v)
        /\ \E i \in 1..Len(rows_of(v)) :
              LET r == rows_of(v)[i]
                  raw == {raw_snapshots[k].deskcount :
                             k \in RawUpTo(r.office_location, r.date)}
              IN /\ r.attendance_count > 0
                 /\ isna(r.deskcount)
                 /\ raw = {Some(0), Some(0 - 1)}

(***************************************************************************)
(* C28  Every ISO week whose five Monday-Friday dates all lie inside the   *)
(* horizon of a written fact has 3, 4 or 5 eligible dates; a week of the   *)
(* fact has fewer than 3 eligible dates only when the horizon holds not    *)
(* all five of its weekdays.                                               *)
(***************************************************************************)
\* the Monday-Friday dates of the ISO week that starts on w
WeekdaysOfWeek(w) == {w + k : k \in 0..4}

\* the dates of the fact that the builder finds eligible, in the week of w
EligibleOfWeek(v, w) ==
    {d \in eligible_dates(GridDates(v)) : week_start(d) = w}

C28_FullWeekEligibility ==
    \A v \in Variants :
        written(v) =>
            LET dates == GridDates(v)
                eligible == eligible_dates(dates)
            IN \A w \in {week_start(d) : d \in dates} :
                  LET n == Cardinality({d \in eligible : week_start(d) = w})
                  IN /\ WeekdaysOfWeek(w) \subseteq dates => n \in {3, 4, 5}
                     /\ n < 3 => ~(WeekdaysOfWeek(w) \subseteq dates)

\* the written facts of one run show a whole week inside one month (5
\* eligible dates), a whole week that two months share three to two (3
\* eligible dates, those of the month with the three weekdays), a whole week
\* that two months share four to one (4 eligible dates), and a week that the
\* first date of a horizon cuts, of which no date is eligible
C28_Witness ==
    /\ written("lob") /\ written("agg")
    /\ \E v \in Variants : \E w \in WeeksOf(v) :
          /\ WeekdaysOfWeek(w) \subseteq GridDates(v)
          /\ Cardinality(EligibleOfWeek(v, w)) = 5
    /\ \E v \in Variants : \E w \in WeeksOf(v) :
          /\ WeekdaysOfWeek(w) \subseteq GridDates(v)
          /\ Cardinality(EligibleOfWeek(v, w)) = 3
          /\ \E d \in WeekdaysOfWeek(w) : month_of(d) # month_of(w)
    /\ \E v \in Variants : \E w \in WeeksOf(v) :
          /\ WeekdaysOfWeek(w) \subseteq GridDates(v)
          /\ EligibleOfWeek(v, w) = {w + k : k \in 0..3}
          /\ month_of(w + 4) # month_of(w)
    /\ \E v \in Variants : \E w \in WeeksOf(v) :
          /\ ~(WeekdaysOfWeek(w) \subseteq GridDates(v))
          /\ Cardinality(WeekdaysOfWeek(w) \cap GridDates(v)) >= 3
          /\ EligibleOfWeek(v, w) = {}

(***************************************************************************)
(* C29  Attendance conservation: in each written fact the sum of           *)
(* attendance_count over all rows equals the number of cleaned events      *)
(* dated inside the fact's horizon: no such event is dropped by the        *)
(* grouping or by the left join, and none is counted twice.                *)
(***************************************************************************)
\* the sum of attendance_count over the rows of a fact
TotalAttendance(v) ==
    SumOver([i \in 1..Len(rows_of(v)) |-> rows_of(v)[i].attendance_count],
            1..Len(rows_of(v)))

\* the number of cleaned events dated on a date of the fact
EventsInHorizon(v) ==
    SumOver(occupancy, {k \in DOMAIN occupancy : k[1] \in GridDates(v)})

C29_AttendanceConserved ==
    \A v \in Variants : written(v) => TotalAttendance(v) = EventsInHorizon(v)

====
